---- MODULE Spec2Model ----
(***************************************************************************)
(* GeoService (server/geo-service.js): the IP geolocation lookup service   *)
(* of the DNS visualisation dashboard -- its recency cache, its sliding    *)
(* window rate limiter, its circuit breaker and its request coalescing;    *)
(* and, each in a specification of its own, the retry loop of the          *)
(* AdGuardClient, the reconnection of the browser client and the polling   *)
(* of server/index.js.                                                     *)
(*                                                                         *)
(* Strings are sequences of one-character strings.  Times are in           *)
(* milliseconds, as Date.now() returns them.  A lookup in progress is a    *)
(* "call"; its position (pc) is the await at which it is suspended.        *)
(***************************************************************************)
EXTENDS Integers, Sequences, FiniteSets, TLC

VARIABLES
  now,              \* Date.now()
  opts,             \* the validated constructor options (this.maxCacheSize, ...)
  cache,            \* this.cache: Map in insertion order, <<[ip, value], ...>>
  pendingRequests,  \* this.pendingRequests: Map ip -> promise (the owning call)
  requestQueue,     \* this.requestQueue: timestamps of admitted upstream calls
  lastRequestTime,  \* this.lastRequestTime
  circuitBreaker,   \* this.circuitBreaker: [failures, state, lastFailureTime]
  stats,            \* this.stats
  calls,            \* the lookup invocations in progress: call id -> its frame
  env,              \* what the callers and the clock may do in this behaviour
  returned,         \* history: the lookup that settled last, and when
  admissions,       \* history: every timestamp checkRateLimit admitted
  recency,          \* history: the IPs read or written in the cache since it
                    \* was last cleared, each once, in the order of their last touch
  inserted,         \* history: the IPs written to the cache since it was last
                    \* cleared, each once, in the order of their last insertion
  adguard,          \* server/adguard-client.js: the options of the AdGuardClient
                    \* and its _fetchWithRetry invocations, request id -> frame
  browser,          \* the browser client: its `state`, its socket and its timers
  server            \* server/index.js: connections, polling timers, processedIds
                    \* and the pollDNSLogs executions

service == <<cache, pendingRequests, requestQueue, lastRequestTime, circuitBreaker,
             stats>>
history == <<returned, admissions, recency, inserted>>
\* the components other than GeoService
peers == <<adguard, browser, server>>
\* GeoService, its callers and its clock
geo == <<now, opts, env, service, calls, history>>
vars == <<now, opts, env, peers, service, calls, history>>

----------------------------------------------------------------------------
(* Program constants *)

requestWindow == 60000
maxFailures == 5
resetTimeout == 30000
MaxWait == 2000
MaxIpLength == 45

\* Date.now() when the service is constructed: any instant later than
\* requestWindow after the epoch
StartTime == requestWindow + requestWindow

Calls == DOMAIN calls

----------------------------------------------------------------------------
(* Values *)

\* JavaScript null, as a lookup result and as a cached negative entry
Null == [kind |-> "null"]

\* a JSON number / a JSON value that is not a number
Num(n) == [type |-> "number", val |-> n]
NotNum == [type |-> "string", val |-> 0]

Str(s) == [type |-> "string", chars |-> s]
NonString == [type |-> "number", chars |-> <<>>]

----------------------------------------------------------------------------
(* Pure functions of GeoService *)

\* the alphabet of the addresses looked up here: decimal and hexadecimal
\* digits, three more word characters, and the punctuation of an address;
\* every other character (the space of IpPadded) is one sanitizeIp drops
Digits == <<"0", "1", "2", "3", "4", "5", "6", "7", "8", "9">>
UpperCase == <<"A", "B", "C", "D", "E", "F">>
LowerCase == <<"a", "b", "c", "d", "e", "f">>
WordChars == {Digits[i] : i \in 1..10} \cup {UpperCase[i] : i \in 1..6}
             \cup {LowerCase[i] : i \in 1..6} \cup {"x", "z", "_"}
\* the characters sanitizeIp keeps: [\w.:\[\]]
IpChars == WordChars \cup {".", ":", "[", "]"}

IsKept(ch) == ch \in IpChars

\* isValidInput(ip): a non-empty string of at most 45 characters
isValidInput(ip) ==
  /\ ip.type = "string"
  /\ Len(ip.chars) > 0
  /\ Len(ip.chars) <= MaxIpLength

\* sanitizeIp(ip): trim, then drop every character outside [\w.:\[\]];
\* null (here <<>>) when nothing or more than 45 characters remain
sanitizeIp(ip) ==
  LET cleaned == SelectSeq(ip.chars, IsKept)
  IN  IF Len(cleaned) = 0 \/ Len(cleaned) > MaxIpLength THEN <<>> ELSE cleaned

Includes(s, ch) == \E i \in 1..Len(s) : s[i] = ch

RECURSIVE Split(_, _)
\* s.split(sep)
Split(s, sep) ==
  IF ~Includes(s, sep) THEN <<s>>
  ELSE LET i == CHOOSE k \in 1..Len(s) : s[k] = sep /\ \A j \in 1..(k-1) : s[j] # sep
       IN  <<SubSeq(s, 1, i-1)>> \o Split(SubSeq(s, i+1, Len(s)), sep)

DigitVal(ch) == (CHOOSE i \in 1..10 : Digits[i] = ch) - 1
IsDigit(ch) == \E i \in 1..10 : Digits[i] = ch

NaN == -1

RECURSIVE DigitsValue(_, _)
DigitsValue(s, acc) ==
  IF Len(s) = 0 \/ ~IsDigit(Head(s)) THEN acc
  ELSE DigitsValue(Tail(s), 10 * acc + DigitVal(Head(s)))

\* parseInt(p, 10) of a sanitized part: the value of its leading digits,
\* NaN when it has none (sanitizeIp leaves no sign and no white space)
parseInt(p) ==
  IF Len(p) = 0 \/ ~IsDigit(Head(p)) THEN NaN ELSE DigitsValue(p, 0)

toLowerCase(s) ==
  [i \in 1..Len(s) |->
     IF \E k \in 1..6 : UpperCase[k] = s[i]
     THEN LowerCase[CHOOSE k \in 1..6 : UpperCase[k] = s[i]]
     ELSE s[i]]

startsWith(s, p) == Len(s) >= Len(p) /\ SubSeq(s, 1, Len(p)) = p

\* a classification that knows IPv4 only
isPrivateIPv4(ip) == Includes(ip, ".") /\ parseInt(Split(ip, ".")[1]) \in {10, 127, 192}

isPrivateIP(ip) ==
  IF Len(ip) = 0 THEN TRUE
  ELSE IF Includes(ip, ".") THEN
    LET parts == Split(ip, ".")
        octets == [i \in 1..Len(parts) |-> parseInt(parts[i])]
    IN  IF Len(parts) # 4 THEN TRUE
        ELSE IF \E i \in 1..4 : octets[i] = NaN \/ octets[i] < 0 \/ octets[i] > 255
        THEN TRUE
        ELSE LET first == octets[1]
                 second == octets[2]
                 third == octets[3]
             IN  \/ first = 10
                 \/ first = 127
                 \/ (first = 172 /\ second >= 16 /\ second <= 31)
                 \/ (first = 192 /\ second = 168)
                 \/ first = 0
                 \/ (first = 169 /\ second = 254)
                 \/ first = 255
                 \/ (first = 100 /\ second >= 64 /\ second <= 127)
                 \/ (first = 192 /\ second = 0 /\ (third = 0 \/ third = 2))
                 \/ (first = 198 /\ second = 18)
                 \/ (first = 198 /\ second = 51 /\ third = 100)
                 \/ (first = 203 /\ second = 0 /\ third = 113)
                 \/ first >= 224
  ELSE IF Includes(ip, ":") THEN
    LET lower == toLowerCase(ip)
    IN  \/ startsWith(lower, <<"f", "e", "8", "0", ":">>)
        \/ startsWith(lower, <<"f", "e", "8", "0", ":", ":">>)
        \/ startsWith(lower, <<"f", "e", "c", "0", ":">>)
        \/ startsWith(lower, <<"f", "c", "0", "0", ":">>)
        \/ startsWith(lower, <<"f", "d", "0", "0", ":">>)
        \/ lower = <<":", ":", "1">>
        \/ lower = <<":", ":">>
        \/ startsWith(lower, <<"f", "f", "0", "0", ":">>)
        \/ startsWith(lower, <<"2", "0", "0", "1", ":", "d", "b", "8", ":">>)
        \/ startsWith(lower, <<"2", "0", "0", "1", ":", "1", "0", ":">>)
        \/ startsWith(lower, <<"2", "0", "0", "2", ":">>)
  ELSE TRUE

\* a test of the types only, without the ranges
isValidCoordinateAnyRange(lat, lng) ==
  /\ lat.type = "number"
  /\ lng.type = "number"

isValidCoordinate(lat, lng) ==
  /\ lat.type = "number"
  /\ lng.type = "number"
  /\ lat.val >= -90
  /\ lat.val <= 90
  /\ lng.val >= -180
  /\ lng.val <= 180

validatePositiveInteger(value, defaultValue) ==
  IF value > 0 THEN value ELSE defaultValue

----------------------------------------------------------------------------
(* The cache: a Map, kept as the sequence of its entries in insertion order *)

CacheKeys(c) == {c[i].ip : i \in 1..Len(c)}
cacheHas(c, ip) == ip \in CacheKeys(c)
\* a read that answers with the oldest entry
cacheGetOldest(c, ip) == c[1].value
cacheGet(c, ip) == c[CHOOSE i \in 1..Len(c) : c[i].ip = ip].value
cacheDelete(c, ip) == LET Other(e) == e.ip # ip IN SelectSeq(c, Other)
\* Map.set: an existing key keeps its place, a new key goes last
cacheSet(c, ip, value) ==
  IF cacheHas(c, ip)
  THEN [i \in 1..Len(c) |-> IF c[i].ip = ip THEN [ip |-> ip, value |-> value] ELSE c[i]]
  ELSE Append(c, [ip |-> ip, value |-> value])

\* a cache hit that leaves the entry where it is
touchInPlace(c, ip) == c

\* the cache-hit branch of lookup: delete and set again
touch(c, ip) == cacheSet(cacheDelete(c, ip), ip, cacheGet(c, ip))

\* an insertion that evicts nothing
addToCacheUnbounded(c, ip, data) == cacheSet(c, ip, data)

addToCache(c, ip, data) ==
  LET evicted == IF Len(c) >= opts.maxCacheSize
                 THEN cacheDelete(c, c[1].ip)
                 ELSE c
  IN  cacheSet(evicted, ip, data)

\* the recency or insertion history after ip is touched
Touched(r, ip) == LET Other(x) == x # ip IN Append(SelectSeq(r, Other), ip)

----------------------------------------------------------------------------
(* Inputs *)

IpA == <<"8", ".", "8", ".", "8", ".", "8">>
IpB == <<"1", ".", "1", ".", "1", ".", "1">>
IpC == <<"9", ".", "9", ".", "9", ".", "9">>
IpD == <<"4", ".", "4", ".", "4", ".", "4">>
IpPadded == <<" ">> \o IpA
Ip10 == <<"1", "0", ".", "0", ".", "0", ".", "5">>
Ip192 == <<"1", "9", "2", ".", "1", "6", "8", ".", "1", ".", "1">>
Ip127 == <<"1", "2", "7", ".", "0", ".", "0", ".", "1">>
IpFe80 == <<"f", "e", "8", "0", ":", ":", "1">>
IpLoop6 == <<":", ":", "1">>
Blank == <<" ">>
TooLong == [i \in 1..(MaxIpLength + 1) |-> "1"]

PrivateAddresses == {Ip10, Ip192, Ip127, IpFe80, IpLoop6}
PrivateInputs == {Str(a) : a \in PrivateAddresses}
InvalidInputs == {NonString, Str(<<>>), Str(Blank), Str(TooLong)}

\* the bodies the upstream API can answer with (response.json())
RespMountainView == [status |-> "success", lat |-> Num(37), lon |-> Num(-122)]
RespParis == [status |-> "success", lat |-> Num(48), lon |-> Num(2)]
RespFail == [status |-> "fail", lat |-> NotNum, lon |-> NotNum]
RespOutOfRange == [status |-> "success", lat |-> Num(91), lon |-> Num(0)]
RespNotNumeric == [status |-> "success", lat |-> NotNum, lon |-> Num(0)]

----------------------------------------------------------------------------
(* State *)

\* the frame of a lookup invocation: where it is suspended (pc), its
\* sanitizedIp, the attempt of apiLookupWithRetry, the `now` of checkRateLimit,
\* the time its timer is due, the promise a joiner awaits, and the state the
\* breaker had when the request of the current attempt was sent
Idle == [pc |-> "idle", ip |-> <<>>, attempt |-> 0, now0 |-> 0, due |-> 0, awaits |-> 0,
         issued |-> "none"]

InFlight == {"spacingWait", "rateLimited", "admitted", "fetching", "retryWait"}

NoOptions == [maxCacheSize |-> 0, apiTimeout |-> 0, maxRetries |-> 0, retryDelay |-> 0,
              maxRequestsPerMinute |-> 0, minRequestDelay |-> 0]

\* new GeoService(sourceLat, sourceLng, options)
constructor(options) ==
  /\ opts = [maxCacheSize |-> validatePositiveInteger(options.maxCacheSize, 10000),
             apiTimeout |-> validatePositiveInteger(options.apiTimeout, 5000),
             maxRetries |-> validatePositiveInteger(options.maxRetries, 2),
             retryDelay |-> validatePositiveInteger(options.retryDelay, 1000),
             maxRequestsPerMinute |->
               validatePositiveInteger(options.maxRequestsPerMinute, 15),
             minRequestDelay |-> validatePositiveInteger(options.minRequestDelay, 4000)]
  /\ cache = <<>>
  /\ pendingRequests = [x \in {} |-> 0]
  /\ requestQueue = <<>>
  /\ lastRequestTime = 0
  /\ circuitBreaker = [failures |-> 0, state |-> "CLOSED", lastFailureTime |-> 0]
  /\ stats = [totalLookups |-> 0, apiCalls |-> 0, cacheHits |-> 0, cacheMisses |-> 0,
              apiFailures |-> 0, rateLimitHits |-> 0, circuitBreakerTrips |-> 0]

\* `value || fallback` for a number: 0 and NaN (here 0) give the fallback
OrElse(value, fallback) == IF value = 0 THEN fallback ELSE value

NoClientOptions == [maxRetries |-> 0, retryDelay |-> 0]

\* a _fetchWithRetry that has not been called
NoRequest == [pc |-> "idle", retryCount |-> 0, slept |-> <<>>]

\* adguard-client.js, new AdGuardClient(url, username, password, options),
\* of which at most maxRequests requests are under way at a time; a frame
\* keeps the delays its request has slept (history)
AdGuardClient(options, maxRequests) ==
  [maxRetries |-> OrElse(options.maxRetries, 3),
   retryDelay |-> OrElse(options.retryDelay, 1000),
   requests |-> [r \in 1..maxRequests |-> NoRequest]]

\* the browser client when its script has been evaluated: `state`, no
\* socket yet and no timer; `delay` is the delay of the timer set last and
\* `timers` the timeouts that are pending (history)
BrowserState ==
  [loaded |-> FALSE, ws |-> "none", reconnectAttempts |-> 0, reconnectTimeoutId |-> 0,
   timers |-> {}, delay |-> 0]

\* a pollDNSLogs that is not running
NoPoll == [pc |-> "idle", entries |-> <<>>, skippedDuplicates |-> 0]

\* server/index.js when the module has been evaluated, with at most
\* maxSockets client sockets and maxPolls polls under way at a time; null
\* is 0, and `dnsTimers` and `statsTimers` are the intervals that exist
ServerState(maxSockets, maxPolls) ==
  [activeConnections |-> {}, dnsPollingInterval |-> 0, statsPollingInterval |-> 0,
   dnsTimers |-> {}, statsTimers |-> {},
   sockets |-> [w \in 1..maxSockets |-> "new"],
   processedIds |-> <<>>, MAX_PROCESSED_IDS |-> 1000, lastPollTime |-> StartTime,
   polls |-> [p \in 1..maxPolls |-> NoPoll],
   taken |-> <<>>, runs |-> 0]

\* GeoService is constructed with `options` and then used by at most
\* maxCalls lookups at a time, of which at most maxLookups do not end in a
\* counted upstream failure, while the clock advances by at most horizon ms
Constructed(options, maxCalls, maxLookups, horizon) ==
  /\ constructor(options)
  /\ now = StartTime
  /\ env = [maxLookups |-> maxLookups, horizon |-> horizon]
  /\ calls = [c \in 1..maxCalls |-> Idle]
  /\ returned = [ip |-> <<>>, value |-> Null, via |-> "none", attempt |-> 0,
                 callers |-> {}, at |-> StartTime]
  /\ admissions = <<>>
  /\ recency = <<>>
  /\ inserted = <<>>

\* the service under study is GeoService: the other components have been
\* created and do nothing
Setup(options, maxCalls, maxLookups, horizon) ==
  /\ Constructed(options, maxCalls, maxLookups, horizon)
  /\ adguard = AdGuardClient(NoClientOptions, 0)
  /\ browser = BrowserState
  /\ server = ServerState(0, 0)

\* a lookup that registers no pending request
pendingSetNothing(p, ip, c) == p

pendingSet(p, ip, c) == [x \in DOMAIN p \cup {ip} |-> IF x = ip THEN c ELSE p[x]]

\* a pipeline that leaves its pending request behind
pendingKeep(p, ip) == p

pendingDelete(p, ip) == [x \in DOMAIN p \ {ip} |-> p[x]]

\* the calls that hold the promise of call c: c and those that joined it
Holders(c) == {j \in Calls : j = c \/ (calls[j].pc = "joined" /\ calls[j].awaits = c)}

\* call c returns v without having been suspended
Return(c, ip, v, via) ==
  /\ calls' = [calls EXCEPT ![c] = Idle]
  /\ returned' = [ip |-> ip, value |-> v, via |-> via, attempt |-> 0, callers |-> {c},
                  at |-> now]

\* the promise of call c resolves with v: c and every call that joined it return v
Settle(c, v, via) ==
  /\ calls' = [j \in Calls |-> IF j \in Holders(c) THEN Idle ELSE calls[j]]
  /\ returned' = [ip |-> calls[c].ip, value |-> v, via |-> via,
                  attempt |-> calls[c].attempt, callers |-> Holders(c),
                  at |-> now]

----------------------------------------------------------------------------
(* checkRateLimit *)

\* a gate that rejects a deficit of MaxWait as well
MinDelayGateStrict(t) ==
  LET timeSinceLastRequest == t - lastRequestTime
      waitTime == opts.minRequestDelay - timeSinceLastRequest
  IN  IF timeSinceLastRequest < opts.minRequestDelay
      THEN IF waitTime >= MaxWait THEN "throw" ELSE "sleep"
      ELSE "pass"

\* lines 214-224, entered at time t: "throw", "sleep" or "pass"
MinDelayGate(t) ==
  LET timeSinceLastRequest == t - lastRequestTime
      waitTime == opts.minRequestDelay - timeSinceLastRequest
  IN  IF timeSinceLastRequest < opts.minRequestDelay
      THEN IF waitTime > MaxWait THEN "throw" ELSE "sleep"
      ELSE "pass"

\* a window that is full one timestamp late
WindowGateLate(t0) ==
  LET windowStart == t0 - requestWindow
      InWindow(time) == time > windowStart
      kept == SelectSeq(requestQueue, InWindow)
      full == Len(kept) > opts.maxRequestsPerMinute
  IN  [queue |-> kept,
       hit |-> full,
       throws |-> full /\ requestWindow - (t0 - kept[1]) > 0]

\* a window that keeps the timestamp lying exactly requestWindow back
WindowGateInclusive(t0) ==
  LET windowStart == t0 - requestWindow
      InWindow(time) == time >= windowStart
      kept == SelectSeq(requestQueue, InWindow)
      full == Len(kept) >= opts.maxRequestsPerMinute
  IN  [queue |-> kept,
       hit |-> full,
       throws |-> full /\ requestWindow - (t0 - kept[1]) > 0]

\* lines 226-240, with t0 the `now` read at line 214
WindowGate(t0) ==
  LET windowStart == t0 - requestWindow
      InWindow(time) == time > windowStart
      kept == SelectSeq(requestQueue, InWindow)
      full == Len(kept) >= opts.maxRequestsPerMinute
  IN  [queue |-> kept,
       hit |-> full,
       throws |-> full /\ requestWindow - (t0 - kept[1]) > 0]

\* lines 226-243 for the call with frame f: what they leave behind
PassWindowGate(f, t0) ==
  LET w == WindowGate(t0)
  IN  IF w.throws
      THEN [frame |-> [f EXCEPT !.pc = "rateLimited"], queue |-> w.queue,
            last |-> lastRequestTime, hits |-> 1, admitted |-> FALSE]
      ELSE [frame |-> [f EXCEPT !.pc = "admitted"], queue |-> Append(w.queue, now),
            last |-> now, hits |-> IF w.hit THEN 1 ELSE 0, admitted |-> TRUE]

\* checkRateLimit run from its entry to its first suspension or its end
EnterRateLimit(f) ==
  LET gate == MinDelayGate(now)
  IN  CASE gate = "throw" ->
             [frame |-> [f EXCEPT !.pc = "rateLimited"], queue |-> requestQueue,
              last |-> lastRequestTime, hits |-> 0, admitted |-> FALSE]
        [] gate = "sleep" ->
             [frame |-> [f EXCEPT !.pc = "spacingWait", !.now0 = now,
                                  !.due = now + (opts.minRequestDelay - (now - lastRequestTime))],
              queue |-> requestQueue, last |-> lastRequestTime, hits |-> 0,
              admitted |-> FALSE]
        [] OTHER -> PassWindowGate(f, now)

\* the service state after r, a record of PassWindowGate or EnterRateLimit;
\* st is this.stats as the caller of checkRateLimit left it
RateLimitEffect(r, st) ==
  /\ requestQueue' = r.queue
  /\ lastRequestTime' = r.last
  /\ stats' = [st EXCEPT !.rateLimitHits = @ + r.hits]
  /\ admissions' = IF r.admitted THEN Append(admissions, now) ELSE admissions

----------------------------------------------------------------------------
(* lookup: the part that runs before its first suspension *)

\* a new invocation takes the first free frame; the environment goes on
\* calling while fewer than env.maxLookups of its lookups are under way or
\* ended otherwise than in a counted upstream failure
CanCall(c) ==
  /\ c \in Calls
  /\ calls[c].pc = "idle"
  /\ \A d \in Calls : d < c => calls[d].pc # "idle"
  /\ stats.totalLookups - stats.apiFailures < env.maxLookups

Counted(field) ==
  [stats EXCEPT !.totalLookups = @ + 1, ![field] = @ + 1]

\* a rejected input that is counted as a cache miss
LookupInvalidCounted(c, ip) ==
  /\ CanCall(c)
  /\ ~isValidInput(ip) \/ sanitizeIp(ip) = <<>>
  /\ stats' = Counted("cacheMisses")
  /\ Return(c, <<>>, Null, "invalid")
  /\ UNCHANGED <<now, opts, env, peers, cache, pendingRequests, requestQueue, lastRequestTime,
                 circuitBreaker, admissions, recency, inserted>>

\* lines 51-60: the input is rejected
LookupInvalid(c, ip) ==
  /\ CanCall(c)
  /\ ~isValidInput(ip) \/ sanitizeIp(ip) = <<>>
  /\ stats' = [stats EXCEPT !.totalLookups = @ + 1]
  /\ Return(c, <<>>, Null, "invalid")
  /\ UNCHANGED <<now, opts, env, peers, cache, pendingRequests, requestQueue, lastRequestTime,
                 circuitBreaker, admissions, recency, inserted>>

\* the input passes lines 53-60
Accepted(ip) == isValidInput(ip) /\ sanitizeIp(ip) # <<>>

\* lines 62-72: cache hit
LookupHit(c, ip) ==
  /\ CanCall(c)
  /\ Accepted(ip)
  /\ LET sanitizedIp == sanitizeIp(ip)
     IN  /\ cacheHas(cache, sanitizedIp)
         /\ stats' = Counted("cacheHits")
         /\ cache' = touch(cache, sanitizedIp)
         /\ recency' = Touched(recency, sanitizedIp)
         /\ Return(c, sanitizedIp, cacheGet(cache, sanitizedIp), "hit")
  /\ UNCHANGED <<now, opts, env, peers, pendingRequests, requestQueue, lastRequestTime,
                 circuitBreaker, admissions, inserted>>

\* lines 74-79: joins the pending request of the same IP
LookupJoin(c, ip) ==
  /\ CanCall(c)
  /\ Accepted(ip)
  /\ LET sanitizedIp == sanitizeIp(ip)
     IN  /\ ~cacheHas(cache, sanitizedIp)
         /\ sanitizedIp \in DOMAIN pendingRequests
         /\ stats' = Counted("cacheMisses")
         /\ calls' = [calls EXCEPT ![c] = [Idle EXCEPT !.pc = "joined", !.ip = sanitizedIp,
                                                      !.awaits = pendingRequests[sanitizedIp]]]
  /\ UNCHANGED <<now, opts, env, peers, cache, pendingRequests, requestQueue, lastRequestTime,
                 circuitBreaker, history>>

\* a private address tested after the breaker, so that its lookup starts the probe
LookupPrivateProbing(c, ip) ==
  /\ CanCall(c)
  /\ Accepted(ip)
  /\ LET sanitizedIp == sanitizeIp(ip)
     IN  /\ ~cacheHas(cache, sanitizedIp)
         /\ sanitizedIp \notin DOMAIN pendingRequests
         /\ isPrivateIP(sanitizedIp)
         /\ stats' = Counted("cacheMisses")
         /\ Return(c, sanitizedIp, Null, "private")
  /\ circuitBreaker' =
       IF /\ circuitBreaker.state = "OPEN"
          /\ now - circuitBreaker.lastFailureTime > resetTimeout
       THEN [circuitBreaker EXCEPT !.state = "HALF_OPEN"]
       ELSE circuitBreaker
  /\ UNCHANGED <<now, opts, env, peers, cache, pendingRequests, requestQueue, lastRequestTime,
                 admissions, recency, inserted>>

\* lines 74-86: a private address
LookupPrivate(c, ip) ==
  /\ CanCall(c)
  /\ Accepted(ip)
  /\ LET sanitizedIp == sanitizeIp(ip)
     IN  /\ ~cacheHas(cache, sanitizedIp)
         /\ sanitizedIp \notin DOMAIN pendingRequests
         /\ isPrivateIP(sanitizedIp)
         /\ stats' = Counted("cacheMisses")
         /\ Return(c, sanitizedIp, Null, "private")
  /\ UNCHANGED <<now, opts, env, peers, cache, pendingRequests, requestQueue, lastRequestTime,
                 circuitBreaker, admissions, recency, inserted>>

\* a probe that is let through as soon as resetTimeout has passed
ResetElapsedEarly == now - circuitBreaker.lastFailureTime >= resetTimeout

\* line 90: more than resetTimeout since the last failure
ResetElapsed == now - circuitBreaker.lastFailureTime > resetTimeout

\* lines 74-98: the breaker is OPEN and stays so
LookupBreakerOpen(c, ip) ==
  /\ CanCall(c)
  /\ Accepted(ip)
  /\ LET sanitizedIp == sanitizeIp(ip)
     IN  /\ ~cacheHas(cache, sanitizedIp)
         /\ sanitizedIp \notin DOMAIN pendingRequests
         /\ ~isPrivateIP(sanitizedIp)
         /\ circuitBreaker.state = "OPEN"
         /\ ~ResetElapsed
         /\ stats' = Counted("cacheMisses")
         /\ cache' = addToCache(cache, sanitizedIp, Null)
         /\ recency' = Touched(recency, sanitizedIp)
         /\ inserted' = Touched(inserted, sanitizedIp)
         /\ Return(c, sanitizedIp, Null, "breakerOpen")
  /\ UNCHANGED <<now, opts, env, peers, pendingRequests, requestQueue, lastRequestTime,
                 circuitBreaker, admissions>>

\* a pipeline started without looking into the cache
LookupStartCached(c, ip) ==
  /\ CanCall(c)
  /\ Accepted(ip)
  /\ LET sanitizedIp == sanitizeIp(ip)
         r == EnterRateLimit([Idle EXCEPT !.ip = sanitizedIp, !.attempt = 1])
     IN  /\ sanitizedIp \notin DOMAIN pendingRequests
         /\ ~isPrivateIP(sanitizedIp)
         /\ circuitBreaker.state = "OPEN" => ResetElapsed
         /\ circuitBreaker' =
              IF circuitBreaker.state = "OPEN"
              THEN [circuitBreaker EXCEPT !.state = "HALF_OPEN"]
              ELSE circuitBreaker
         /\ RateLimitEffect(r, Counted("cacheMisses"))
         /\ calls' = [calls EXCEPT ![c] = r.frame]
         /\ pendingRequests' = pendingSet(pendingRequests, sanitizedIp, c)
  /\ UNCHANGED <<now, opts, env, peers, cache, returned, recency, inserted>>

\* lines 74-128: the upstream pipeline is started; it runs through
\* apiLookupWithRetry and apiLookup into checkRateLimit, to the first await
\* that suspends it, and then its promise is registered as pending
LookupStart(c, ip) ==
  /\ CanCall(c)
  /\ Accepted(ip)
  /\ LET sanitizedIp == sanitizeIp(ip)
         r == EnterRateLimit([Idle EXCEPT !.ip = sanitizedIp, !.attempt = 1])
     IN  /\ ~cacheHas(cache, sanitizedIp)
         /\ sanitizedIp \notin DOMAIN pendingRequests
         /\ ~isPrivateIP(sanitizedIp)
         /\ circuitBreaker.state = "OPEN" => ResetElapsed
         /\ circuitBreaker' =
              IF circuitBreaker.state = "OPEN"
              THEN [circuitBreaker EXCEPT !.state = "HALF_OPEN"]
              ELSE circuitBreaker
         /\ RateLimitEffect(r, Counted("cacheMisses"))
         /\ calls' = [calls EXCEPT ![c] = r.frame]
         /\ pendingRequests' = pendingSet(pendingRequests, sanitizedIp, c)
  /\ UNCHANGED <<now, opts, env, peers, cache, returned, recency, inserted>>

----------------------------------------------------------------------------
(* the upstream pipeline of a lookup: one action per resumption *)

\* line 153: a call awaits a checkRateLimit that has already settled; its
\* continuation is a microtask, which runs before any timer or network event
Resumable == \E c \in Calls : calls[c].pc \in {"admitted", "rateLimited"}

\* a pipeline that caches locations only
StoreFound(c, result) ==
  /\ cache' = IF result = Null THEN cache ELSE addToCache(cache, calls[c].ip, result)
  /\ recency' = IF result = Null THEN recency ELSE Touched(recency, calls[c].ip)
  /\ inserted' = IF result = Null THEN inserted ELSE Touched(inserted, calls[c].ip)
  /\ pendingRequests' = pendingDelete(pendingRequests, calls[c].ip)

\* lines 112 and 120, 123: the result is cached and the pending entry removed
Store(c, result) ==
  /\ cache' = addToCache(cache, calls[c].ip, result)
  /\ recency' = Touched(recency, calls[c].ip)
  /\ inserted' = Touched(inserted, calls[c].ip)
  /\ pendingRequests' = pendingDelete(pendingRequests, calls[c].ip)

\* a HALF_OPEN breaker that takes a null result for a failed trial
FinishTrialOver(c, result, via) ==
  /\ circuitBreaker' =
       IF result # Null
       THEN [circuitBreaker EXCEPT
               !.failures = 0,
               !.state = IF @ = "HALF_OPEN" THEN "CLOSED" ELSE @]
       ELSE [circuitBreaker EXCEPT !.state = IF @ = "HALF_OPEN" THEN "OPEN" ELSE @]
  /\ Store(c, result)
  /\ Settle(c, result, via)

\* a success that closes a HALF_OPEN breaker and keeps the count of failures
FinishKeepsCount(c, result, via) ==
  /\ circuitBreaker' =
       IF result # Null /\ circuitBreaker.state = "HALF_OPEN"
       THEN [circuitBreaker EXCEPT !.state = "CLOSED"]
       ELSE circuitBreaker
  /\ Store(c, result)
  /\ Settle(c, result, via)

\* lines 104-113 and 122-124: apiLookupWithRetry returned result (a location or null)
Finish(c, result, via) ==
  /\ circuitBreaker' =
       IF result # Null
       THEN [circuitBreaker EXCEPT
               !.failures = 0,
               !.state = IF @ = "HALF_OPEN" THEN "CLOSED" ELSE @]
       ELSE circuitBreaker
  /\ Store(c, result)
  /\ Settle(c, result, via)

\* a breaker that opens one failure late
OpensLate(failures) == failures > maxFailures

\* line 251: the breaker opens at this number of failures
Opens(failures) == failures >= maxFailures

handleApiFailure ==
  LET failures == circuitBreaker.failures + 1
  IN  /\ circuitBreaker' =
           [failures |-> failures,
            lastFailureTime |-> now,
            state |-> IF Opens(failures) THEN "OPEN" ELSE circuitBreaker.state]
      /\ stats' = [stats EXCEPT
                     !.apiFailures = @ + 1,
                     !.circuitBreakerTrips =
                        IF Opens(failures) /\ circuitBreaker.state # "OPEN"
                        THEN @ + 1 ELSE @]

\* a failure that escapes the catch of lookup: the promise rejects
FinishRejected(c) ==
  /\ handleApiFailure
  /\ Store(c, Null)
  /\ Settle(c, [kind |-> "rejected"], "failed")

\* lines 115-124: apiLookupWithRetry threw
FinishFailed(c) ==
  /\ handleApiFailure
  /\ Store(c, Null)
  /\ Settle(c, Null, "failed")

\* a rejection that is handled as a failure of the upstream
RateLimitedAsFailure(c) ==
  /\ c \in Calls
  /\ calls[c].pc = "rateLimited"
  /\ FinishFailed(c)
  /\ UNCHANGED <<now, opts, env, peers, requestQueue, lastRequestTime, admissions>>

\* checkRateLimit threw: apiLookup rejects, apiLookupWithRetry returns null
\* (line 136), and the pipeline ends with null
RateLimited(c) ==
  /\ c \in Calls
  /\ calls[c].pc = "rateLimited"
  /\ Finish(c, Null, "rateLimited")
  /\ UNCHANGED <<now, opts, env, peers, requestQueue, lastRequestTime, stats, admissions>>

\* lines 223-243: the minimum-spacing sleep of checkRateLimit is over
SpacingWake(c) ==
  /\ c \in Calls
  /\ calls[c].pc = "spacingWait"
  /\ ~Resumable
  /\ now >= calls[c].due
  /\ LET r == PassWindowGate(calls[c], calls[c].now0)
     IN  /\ RateLimitEffect(r, stats)
         /\ calls' = [calls EXCEPT ![c] = r.frame]
  /\ UNCHANGED <<now, opts, env, peers, cache, pendingRequests, circuitBreaker, returned,
                 recency, inserted>>

\* lines 155-171: checkRateLimit returned; the request is sent
StartFetch(c) ==
  /\ c \in Calls
  /\ calls[c].pc = "admitted"
  /\ stats' = [stats EXCEPT !.apiCalls = @ + 1]
  /\ calls' = [calls EXCEPT ![c].pc = "fetching", ![c].due = now + opts.apiTimeout,
                           ![c].issued = circuitBreaker.state]
  /\ UNCHANGED <<now, opts, env, peers, cache, pendingRequests, requestQueue, lastRequestTime,
                 circuitBreaker, history>>

\* lines 191-196: the location made of a response body
Location(data) == [kind |-> "location", lat |-> data.lat.val, lng |-> data.lon.val]

\* lines 179-200, 102-113: a body with status success and valid coordinates
FetchSuccess(c, data) ==
  /\ c \in Calls
  /\ calls[c].pc = "fetching"
  /\ ~Resumable
  /\ now <= calls[c].due
  /\ data.status # "fail"
  /\ isValidCoordinate(data.lat, data.lon)
  /\ Finish(c, Location(data), "location")
  /\ UNCHANGED <<now, opts, env, peers, requestQueue, lastRequestTime, stats, admissions>>

\* lines 181-189, 102-113: status fail or invalid coordinates: apiLookup returns null
FetchNoData(c, data) ==
  /\ c \in Calls
  /\ calls[c].pc = "fetching"
  /\ ~Resumable
  /\ now <= calls[c].due
  /\ data.status = "fail" \/ ~isValidCoordinate(data.lat, data.lon)
  /\ Finish(c, Null, "noData")
  /\ UNCHANGED <<now, opts, env, peers, requestQueue, lastRequestTime, stats, admissions>>

\* lines 134-149: apiLookup threw an error that is not a rate-limit error
Caught(c) ==
  IF circuitBreaker.state = "OPEN"
  THEN /\ Finish(c, Null, "swallowed")
       /\ UNCHANGED stats
  ELSE IF calls[c].attempt < opts.maxRetries
  THEN /\ calls' = [calls EXCEPT
                      ![c].pc = "retryWait",
                      ![c].due = now + opts.retryDelay * 2 ^ (calls[c].attempt - 1)]
       /\ UNCHANGED <<cache, pendingRequests, circuitBreaker, stats, returned, recency, inserted>>
  ELSE FinishFailed(c)

\* lines 175-177, 202-210: an HTTP status that is not ok, or a network error
FetchError(c) ==
  /\ c \in Calls
  /\ calls[c].pc = "fetching"
  /\ ~Resumable
  /\ now <= calls[c].due
  /\ Caught(c)
  /\ UNCHANGED <<now, opts, env, peers, requestQueue, lastRequestTime, admissions>>

\* a request without an abort timer
FetchNeverAborted(c) ==
  /\ c \in Calls
  /\ FALSE
  /\ UNCHANGED vars

\* lines 158, 205-207: the abort timer fires at apiTimeout
FetchTimeout(c) ==
  /\ c \in Calls
  /\ calls[c].pc = "fetching"
  /\ ~Resumable
  /\ now >= calls[c].due
  /\ Caught(c)
  /\ UNCHANGED <<now, opts, env, peers, requestQueue, lastRequestTime, admissions>>

\* a retry that sends its request without passing checkRateLimit
RetryWakeUnchecked(c) ==
  /\ c \in Calls
  /\ calls[c].pc = "retryWait"
  /\ ~Resumable
  /\ now >= calls[c].due
  /\ calls' = [calls EXCEPT ![c].attempt = @ + 1, ![c].pc = "admitted"]
  /\ UNCHANGED <<now, opts, env, peers, service, history>>

\* lines 144-145: the backoff sleep is over; the next attempt enters apiLookup
RetryWake(c) ==
  /\ c \in Calls
  /\ calls[c].pc = "retryWait"
  /\ ~Resumable
  /\ now >= calls[c].due
  /\ LET r == EnterRateLimit([calls[c] EXCEPT !.attempt = @ + 1])
     IN  /\ RateLimitEffect(r, stats)
         /\ calls' = [calls EXCEPT ![c] = r.frame]
  /\ UNCHANGED <<now, opts, env, peers, cache, pendingRequests, circuitBreaker, returned,
                 recency, inserted>>

----------------------------------------------------------------------------
(* the other operations *)

\* a clearCache that drops the pending requests as well
clearCacheAndPending ==
  /\ cache' = <<>>
  /\ requestQueue' = <<>>
  /\ pendingRequests' = [x \in {} |-> 0]
  /\ stats' = [stats EXCEPT !.cacheHits = 0, !.cacheMisses = 0]
  /\ recency' = <<>>
  /\ inserted' = <<>>
  /\ UNCHANGED <<now, opts, env, peers, lastRequestTime, circuitBreaker, calls,
                 returned, admissions>>

clearCache ==
  /\ cache' = <<>>
  /\ requestQueue' = <<>>
  /\ stats' = [stats EXCEPT !.cacheHits = 0, !.cacheMisses = 0]
  /\ recency' = <<>>
  /\ inserted' = <<>>
  /\ UNCHANGED <<now, opts, env, peers, pendingRequests, lastRequestTime, circuitBreaker, calls,
                 returned, admissions>>

resetCircuitBreaker ==
  /\ circuitBreaker' = [failures |-> 0, state |-> "CLOSED", lastFailureTime |-> 0]
  /\ UNCHANGED <<now, opts, env, peers, cache, pendingRequests, requestQueue, lastRequestTime,
                 stats, calls, history>>

\* call c has a timer (sleep or abort) that is due before time t
TimerBefore(c, t) ==
  /\ calls[c].pc \in {"spacingWait", "retryWait", "fetching"}
  /\ calls[c].due < t

\* something in the service waits for the clock: a timer is pending, the
\* minimum spacing is not yet over, or the breaker is OPEN and not yet due
\* for its probe
Waiting ==
  \/ \E c \in Calls : calls[c].pc \in {"spacingWait", "retryWait", "fetching"}
  \/ now - lastRequestTime < opts.minRequestDelay
  \/ circuitBreaker.state = "OPEN" /\ ~ResetElapsed

\* d ms pass while something waits for them; no timer is overslept
Tick(d) ==
  /\ now + d <= StartTime + env.horizon
  /\ Waiting
  /\ ~Resumable
  /\ \A c \in Calls : ~TimerBefore(c, now + d)
  /\ now' = now + d
  /\ UNCHANGED <<opts, env, peers, service, calls, history>>

----------------------------------------------------------------------------
(* Bounds of the model *)

\* the largest number of lookups in progress at once
MaxCalls == 2
\* options.maxCacheSize in Spec and in SpecBreaker
CacheSize == 1
BreakerCacheSize == 2
\* options.maxRequestsPerMinute in Spec
WindowCap == 2
\* lookups other than failed ones, and seconds of clock, in Spec
MaxLookups == 3
MaxSeconds == 4
\* seconds of clock during which lookups are called in SpecLive
LiveSeconds == 4
\* lookups other than failed ones, and steps of the clock, in SpecBreaker
BreakerLookups == 2
BreakerSteps == 9
\* lookups other than failed ones, and steps of the clock, in SpecSleep
SleepLookups == 2
SleepSteps == 6
\* lookups other than failed ones, and steps of the clock, in SpecWindow
WindowLookups == 4
WindowSteps == 5
\* the requests of the AdGuardClient under way at once in SpecAdGuard
MaxRequests == 2

CallIds == 1..MaxCalls

----------------------------------------------------------------------------
(* Specification: the service at its default delays, under concurrent lookups *)

Inputs == {Str(IpPadded), Str(IpB), Str(Ip10)} \cup InvalidInputs
Responses == {RespMountainView, RespFail, RespOutOfRange, RespNotNumeric}

Init ==
  Setup([NoOptions EXCEPT !.maxCacheSize = CacheSize, !.apiTimeout = 2000,
                          !.maxRequestsPerMinute = WindowCap],
        MaxCalls, MaxLookups, MaxSeconds * 1000)

Pipeline(c) ==
  \/ RateLimited(c)
  \/ SpacingWake(c)
  \/ StartFetch(c)
  \/ FetchError(c)
  \/ FetchTimeout(c)
  \/ RetryWake(c)

Next ==
  \/ \E c \in CallIds, ip \in Inputs :
       \/ LookupInvalid(c, ip)
       \/ LookupHit(c, ip)
       \/ LookupJoin(c, ip)
       \/ LookupPrivate(c, ip)
       \/ LookupStart(c, ip)
  \/ \E c \in CallIds : Pipeline(c)
  \/ \E c \in CallIds, data \in Responses : FetchSuccess(c, data) \/ FetchNoData(c, data)
  \/ clearCache
  \/ resetCircuitBreaker
  \/ Tick(1000)

Spec == Init /\ [][Next]_vars

----------------------------------------------------------------------------------------------------------------------------------------------------
(* Specification: the service used as server/index.js uses it, by lookups *)
(* only, without retries and with its clock advancing by a third of        *)
(* resetTimeout at a time, so that the breaker opens and recovers          *)

BreakerStep == resetTimeout \div 3

BreakerInputs == {Str(IpA), Str(IpB), Str(IpC), Str(IpD), NonString} \cup PrivateInputs
BreakerResponses == {RespMountainView, RespFail, RespOutOfRange}

BreakerInit ==
  Setup([NoOptions EXCEPT !.maxCacheSize = BreakerCacheSize, !.apiTimeout = BreakerStep,
                          !.maxRetries = 1, !.minRequestDelay = BreakerStep],
        MaxCalls, BreakerLookups, BreakerSteps * BreakerStep)

BreakerPipeline(c) ==
  \/ RateLimited(c)
  \/ StartFetch(c)
  \/ FetchError(c)
  \/ FetchTimeout(c)

BreakerNext ==
  \/ \E c \in CallIds, ip \in BreakerInputs :
       \/ LookupInvalid(c, ip)
       \/ LookupHit(c, ip)
       \/ LookupJoin(c, ip)
       \/ LookupPrivate(c, ip)
       \/ LookupBreakerOpen(c, ip)
       \/ LookupStart(c, ip)
  \/ \E c \in CallIds : BreakerPipeline(c)
  \/ \E c \in CallIds, data \in BreakerResponses :
       FetchSuccess(c, data) \/ FetchNoData(c, data)
  \/ Tick(BreakerStep)

SpecBreaker == BreakerInit /\ [][BreakerNext]_vars

----------------------------------------------------------------------------
(* Specification: the service while its upstream is down, without retries, *)
(* with a minimum spacing that checkRateLimit sleeps out (lines 219-221),   *)
(* so that lookups sleep in checkRateLimit while the breaker opens          *)

SleepStep == MaxWait

SleepInputs == {Str(IpA), Str(IpB), Str(IpC)}

SleepInit ==
  Setup([NoOptions EXCEPT !.maxCacheSize = CacheSize, !.apiTimeout = SleepStep,
                          !.maxRetries = 1, !.minRequestDelay = SleepStep],
        MaxCalls, SleepLookups, SleepSteps * SleepStep)

SleepPipeline(c) ==
  \/ SpacingWake(c)
  \/ StartFetch(c)
  \/ FetchError(c)
  \/ FetchTimeout(c)

SleepNext ==
  \/ \E c \in CallIds, ip \in SleepInputs :
       \/ LookupHit(c, ip)
       \/ LookupJoin(c, ip)
       \/ LookupBreakerOpen(c, ip)
       \/ LookupStart(c, ip)
  \/ \E c \in CallIds : SleepPipeline(c)
  \/ Tick(SleepStep)

SpecSleep == SleepInit /\ [][SleepNext]_vars

----------------------------------------------------------------------------
(* Specification: the rate window fills and runs out while the service is idle *)

\* the clock advances by a third of the window; the minimum spacing and the
\* abort timer last one such step, so that no call sleeps in checkRateLimit
WindowStep == requestWindow \div 3

WindowInputs == {Str(IpA), Str(IpB)}

WindowInit ==
  Setup([NoOptions EXCEPT !.maxCacheSize = CacheSize, !.apiTimeout = WindowStep,
                          !.maxRetries = 1, !.minRequestDelay = WindowStep,
                          !.maxRequestsPerMinute = WindowCap],
        MaxCalls, WindowLookups, WindowSteps * WindowStep)

\* WindowStep ms pass, whether or not the service waits for them
Elapse ==
  /\ now + WindowStep <= StartTime + env.horizon
  /\ ~Resumable
  /\ \A c \in Calls : ~TimerBefore(c, now + WindowStep)
  /\ now' = now + WindowStep
  /\ UNCHANGED <<opts, env, peers, service, calls, history>>

WindowPipeline(c) ==
  \/ RateLimited(c)
  \/ StartFetch(c)
  \/ FetchError(c)
  \/ FetchTimeout(c)

WindowNext ==
  \/ \E c \in CallIds, ip \in WindowInputs :
       \/ LookupHit(c, ip)
       \/ LookupJoin(c, ip)
       \/ LookupStart(c, ip)
  \/ \E c \in CallIds : WindowPipeline(c)
  \/ \E c \in CallIds, data \in {RespMountainView} : FetchSuccess(c, data)
  \/ Elapse

SpecWindow == WindowInit /\ [][WindowNext]_vars

----------------------------------------------------------------------------
(* Specification: the service at its default delays, called for a while and *)
(* then left to finish, under the assumption that timers fire and that      *)
(* continuations run; the upstream is free to answer or not                 *)

LiveInputs == {Str(IpA), Str(IpB)}

LiveInit ==
  Setup([NoOptions EXCEPT !.maxCacheSize = CacheSize, !.apiTimeout = 2000,
                          !.maxRequestsPerMinute = WindowCap],
        MaxCalls, MaxLookups, LiveSeconds * 1000)

\* lookups are called until the horizon
Calling == now <= StartTime + env.horizon

\* a timer (sleep or abort) is pending
TimerPending == \E c \in Calls : calls[c].pc \in {"spacingWait", "retryWait", "fetching"}

\* after the horizon the clock goes on while a timer is pending
Drain ==
  /\ ~Calling \/ now + 1000 > StartTime + env.horizon
  /\ TimerPending
  /\ ~Resumable
  /\ \A c \in Calls : ~TimerBefore(c, now + 1000)
  /\ now' = now + 1000
  /\ UNCHANGED <<opts, env, peers, service, calls, history>>

\* the steps of call c that a timer or the microtask queue takes
Scheduled(c) ==
  \/ RateLimited(c)
  \/ SpacingWake(c)
  \/ StartFetch(c)
  \/ FetchTimeout(c)
  \/ RetryWake(c)

LiveNext ==
  \/ \E c \in CallIds, ip \in LiveInputs :
       \/ Calling /\ LookupHit(c, ip)
       \/ Calling /\ LookupJoin(c, ip)
       \/ Calling /\ LookupStart(c, ip)
  \/ \E c \in CallIds : Scheduled(c) \/ FetchError(c)
  \/ \E c \in CallIds, data \in Responses : FetchSuccess(c, data) \/ FetchNoData(c, data)
  \/ Tick(1000)
  \/ Drain

SpecLive ==
  /\ LiveInit
  /\ [][LiveNext]_vars
  /\ WF_vars(Tick(1000) \/ Drain)
  /\ \A c \in CallIds : WF_vars(Scheduled(c))

----------------------------------------------------------------------------
(* The cache: its bound and its eviction order *)

Keys(c) == [i \in 1..Len(c) |-> c[i].ip]

\* the keys that a step adds to the cache, and those it removes
Added == CacheKeys(cache') \ CacheKeys(cache)
Removed == CacheKeys(cache) \ CacheKeys(cache')

\* C1: the cache never holds more than maxCacheSize entries, nor a key twice,
\* and a step that inserts a key into a full cache removes exactly one entry
CacheBounded ==
  [][/\ Len(cache') <= opts.maxCacheSize
     /\ Cardinality(CacheKeys(cache')) = Len(cache')
     /\ (Len(cache) = opts.maxCacheSize /\ Added # {}) =>
          (Cardinality(Added) = 1 /\ Cardinality(Removed) = 1)]_vars

\* a breaker short-circuit has just inserted its IP into a full cache
CacheBoundedWitness ==
  /\ returned.via = "breakerOpen"
  /\ Len(cache) = opts.maxCacheSize
  /\ cache[Len(cache)].ip = returned.ip
  /\ \E i \in 1..Len(inserted) : inserted[i] \notin CacheKeys(cache)

\* the last n elements of a sequence
Last(s, n) == SubSeq(s, Len(s) - n + 1, Len(s))

\* C2: the keys of the cache are the IPs touched (written, or read by a hit)
\* most recently, up to maxCacheSize of them, in the order of their last
\* touch: the first key, which an overflow evicts, is the one touched longest ago
MostRecentlyTouched ==
  Keys(cache) = Last(recency, IF Len(recency) < opts.maxCacheSize
                              THEN Len(recency) ELSE opts.maxCacheSize)

\* an entry was hit and has outlived an entry inserted after it
MostRecentlyTouchedWitness ==
  /\ stats.cacheHits > 0
  /\ \E i, j \in 1..Len(inserted) :
       /\ i < j
       /\ inserted[i] \in CacheKeys(cache)
       /\ inserted[j] \notin CacheKeys(cache)

----------------------------------------------------------------------------
(* Coalescing *)

\* the calls that run the upstream pipeline of ip
Pipelines(ip) == {c \in Calls : calls[c].pc \in InFlight /\ calls[c].ip = ip}

Joiners == {j \in Calls : calls[j].pc = "joined"}

\* call j joins a pending request in this step
Joins(j) == calls[j].pc = "idle" /\ calls'[j].pc = "joined"

\* C3: the lookups of an IP that start while its pipeline is under way all
\* wait for that one pipeline; joining touches neither the breaker nor the
\* rate limiter nor the upstream; and a joiner returns in the step in which
\* the pipeline settles, with the pipeline's own result
Coalesced ==
  /\ [](\A j \in Joiners :
          /\ Pipelines(calls[j].ip) = {calls[j].awaits}
          /\ pendingRequests[calls[j].ip] = calls[j].awaits)
  /\ [][\A j \in Calls :
          /\ Joins(j) =>
               /\ circuitBreaker' = circuitBreaker
               /\ requestQueue' = requestQueue
               /\ lastRequestTime' = lastRequestTime
               /\ admissions' = admissions
               /\ pendingRequests' = pendingRequests
               /\ stats'.apiCalls = stats.apiCalls
               /\ stats'.rateLimitHits = stats.rateLimitHits
          /\ (calls[j].pc = "joined" /\ calls'[j].pc # "joined") =>
               /\ {j, calls[j].awaits} \subseteq returned'.callers
               /\ returned'.ip = calls[j].ip
               /\ calls'[calls[j].awaits].pc = "idle"
               /\ cacheGet(cache', calls[j].ip) = returned'.value]_vars

\* two callers have just received the location that one upstream call found
CoalescedWitness ==
  /\ Cardinality(returned.callers) = 2
  /\ returned.value # Null
  /\ stats.apiCalls = 1
  /\ Len(admissions) = 1

\* C4: no IP has two pipelines under way, the IP of a pipeline under way is
\* registered as pending and is not in the cache; a step that writes an entry
\* writes one whose IP the cache did not hold, and changes no entry it keeps
OnePipelinePerIp ==
  /\ [](\A c \in Calls :
          calls[c].pc \in InFlight =>
            /\ Pipelines(calls[c].ip) = {c}
            /\ calls[c].ip \in DOMAIN pendingRequests
            /\ pendingRequests[calls[c].ip] = c
            /\ ~cacheHas(cache, calls[c].ip))
  /\ [][/\ \A ip \in CacheKeys(cache) \cap CacheKeys(cache') :
             cacheGet(cache', ip) = cacheGet(cache, ip)
        /\ (inserted' # inserted /\ inserted' # <<>>) =>
             inserted'[Len(inserted')] \in Added]_vars

\* a pipeline is under way with a joiner while the cache holds another IP
OnePipelinePerIpWitness ==
  \E c \in Calls, j \in Joiners :
    /\ calls[c].pc = "fetching"
    /\ calls[j].awaits = c
    /\ Len(cache) > 0

----------------------------------------------------------------------------
(* Private and reserved addresses *)

\* a lookup returns in this step without having been suspended
ReturnsAtOnce == stats'.totalLookups = stats.totalLookups + 1 /\ calls' = calls

PrivateCached ==
  [][(ReturnsAtOnce /\ returned'.ip \in PrivateAddresses) =>
       /\ cacheHas(cache', returned'.ip)
       /\ cacheGet(cache', returned'.ip) = Null]_vars

----------------------------------------------------------------------------
(* The rate limiter *)

\* the admissions in the window of length requestWindow that ends with the
\* i-th admission
Trailing(i) ==
  {j \in 1..i : admissions[j] > admissions[i] - requestWindow}

\* C7: no window of length requestWindow holds more than
\* maxRequestsPerMinute admissions
WindowRespected ==
  \A i \in 1..Len(admissions) : Cardinality(Trailing(i)) <= opts.maxRequestsPerMinute

\* C8: any two admissions are at least minRequestDelay apart
SpacingRespected ==
  \A i, j \in 1..Len(admissions) :
    i < j => admissions[j] - admissions[i] >= opts.minRequestDelay

----------------------------------------------------------------------------
(* The breaker *)

\* handleApiFailure is called in this step
FailureHandled == stats'.apiFailures = stats.apiFailures + 1

\* C9: a CLOSED breaker has counted fewer than maxFailures failures; each
\* call of handleApiFailure adds one to the counter and records the time, and
\* leaves a CLOSED breaker CLOSED below maxFailures and OPEN at maxFailures
FailuresCounted ==
  /\ [](circuitBreaker.state = "CLOSED" => circuitBreaker.failures < maxFailures)
  /\ [][FailureHandled =>
          /\ circuitBreaker'.failures = circuitBreaker.failures + 1
          /\ circuitBreaker'.lastFailureTime = now
          /\ circuitBreaker.state = "CLOSED" =>
               circuitBreaker'.state = IF circuitBreaker'.failures < maxFailures
                                       THEN "CLOSED" ELSE "OPEN"]_vars

\* the fifth failure in a row has just opened the breaker
FailuresCountedWitness ==
  /\ circuitBreaker.state = "OPEN"
  /\ circuitBreaker.failures = maxFailures
  /\ circuitBreaker.lastFailureTime = now
  /\ stats.circuitBreakerTrips = 1
  /\ returned.via = "failed"

\* the lookup that has settled made upstream attempts and every one of them
\* ended in an HTTP error, a network error or a timeout
AllAttemptsFailed(r) ==
  \/ r.via = "failed"
  \/ r.via = "swallowed"
  \/ r.via = "rateLimited" /\ r.attempt > 1

\* C10: when a lookup settles whose upstream attempts all failed, the failure
\* counter goes up by one and the cache holds a negative entry for its IP
FailedLookupCounted ==
  [][(returned' # returned /\ AllAttemptsFailed(returned')) =>
       /\ circuitBreaker'.failures = circuitBreaker.failures + 1
       /\ cacheHas(cache', returned'.ip)
       /\ cacheGet(cache', returned'.ip) = Null]_vars

----------------------------------------------------------------------------
(* The breaker while OPEN *)

\* the breaker is OPEN and no more than resetTimeout has passed since the
\* last failure
Blocking == circuitBreaker.state = "OPEN" /\ ~ResetElapsed

\* C11: in a step taken while the breaker is OPEN and not yet due for its
\* probe, no rate-limit admission is consumed and no upstream call is
\* started, be it by a new lookup or by one that was already under way
BlockedWhileOpen ==
  [][Blocking =>
       /\ admissions' = admissions
       /\ stats'.apiCalls = stats.apiCalls]_vars

----------------------------------------------------------------------------
(* The breaker while HALF_OPEN *)

\* the calls whose upstream pipeline is under way
Trials == {c \in Calls : calls[c].pc \in InFlight}

\* the calls that hold an admission: their request is about to be sent or
\* has been sent and not yet answered
Upstream == {c \in Calls : calls[c].pc \in {"admitted", "fetching"}}

\* a lookup is called in this step
Called == stats'.totalLookups = stats.totalLookups + 1

\* C12: while the breaker is HALF_OPEN at most one call is upstream, and a
\* lookup that arrives while the trial is unresolved is admitted to no
\* upstream call
SingleTrial ==
  /\ [](circuitBreaker.state = "HALF_OPEN" => Cardinality(Upstream) <= 1)
  /\ [][(circuitBreaker.state = "HALF_OPEN" /\ Trials # {} /\ Called) =>
          admissions' = admissions]_vars

\* C13: when a lookup fails for good while the breaker is HALF_OPEN, the
\* breaker becomes OPEN and lastFailureTime the time of the failure
TrialFailureReopens ==
  [][(circuitBreaker.state = "HALF_OPEN" /\ FailureHandled) =>
       /\ circuitBreaker'.state = "OPEN"
       /\ circuitBreaker'.lastFailureTime = now]_vars

\* the request of call c is answered with a valid location in this step
Located(c) ==
  /\ calls[c].pc = "fetching"
  /\ calls'[c].pc = "idle"
  /\ returned'.via = "location"

\* C14: when a request that was sent while the breaker was HALF_OPEN is
\* answered with a valid location, the breaker becomes CLOSED with no failures
TrialSuccessCloses ==
  [][\A c \in Calls :
       (Located(c) /\ calls[c].issued = "HALF_OPEN") =>
         /\ circuitBreaker'.state = "CLOSED"
         /\ circuitBreaker'.failures = 0]_vars

----------------------------------------------------------------------------
(* The transitions of the breaker *)

\* lines 92, 106-108 and 251-256: the changes of state that lookups make
Moves ==
  {<<"CLOSED", "OPEN">>, <<"OPEN", "HALF_OPEN">>,
   <<"HALF_OPEN", "CLOSED">>, <<"HALF_OPEN", "OPEN">>}

\* call c starts an upstream pipeline in this step
Starts(c) == calls[c].pc = "idle" /\ calls'[c].pc \in InFlight

\* C15: every change of the breaker state made by a lookup is one of
\* CLOSED to OPEN, OPEN to HALF_OPEN, HALF_OPEN to CLOSED and HALF_OPEN to
\* OPEN (so never OPEN to CLOSED); the state becomes HALF_OPEN only in the
\* step in which a lookup of an uncached public IP starts its pipeline more
\* than resetTimeout after the last failure, before any upstream call of it
BreakerTransitions ==
  [][/\ circuitBreaker'.state # circuitBreaker.state =>
          <<circuitBreaker.state, circuitBreaker'.state>> \in Moves
     /\ (circuitBreaker'.state = "HALF_OPEN" /\ circuitBreaker.state # "HALF_OPEN") =>
          /\ now - circuitBreaker.lastFailureTime > resetTimeout
          /\ Called
          /\ stats'.apiCalls = stats.apiCalls
          /\ \E c \in Calls :
               /\ Starts(c)
               /\ ~cacheHas(cache, calls'[c].ip)
               /\ ~isPrivateIP(calls'[c].ip)]_vars

\* a breaker that was opened has been closed again by a successful probe
BreakerTransitionsWitness ==
  /\ circuitBreaker.state = "CLOSED"
  /\ stats.circuitBreakerTrips = 1
  /\ returned.via = "location"

----------------------------------------------------------------------------
(* The count of consecutive failures *)

\* C16: a valid location received while the breaker is CLOSED sets failures
\* to 0 and leaves it CLOSED; a counted failure adds one and no other step
\* changes the count, so that failures is the number of failures counted
\* since the last success, and a CLOSED breaker opens only in the step that
\* counts the maxFailures-th of them
ConsecutiveFailures ==
  [][/\ \A c \in Calls :
          (Located(c) /\ circuitBreaker.state = "CLOSED") =>
            /\ circuitBreaker'.failures = 0
            /\ circuitBreaker'.state = "CLOSED"
     /\ FailureHandled => circuitBreaker'.failures = circuitBreaker.failures + 1
     /\ (~FailureHandled /\ \A c \in Calls : ~Located(c)) =>
          circuitBreaker'.failures = circuitBreaker.failures
     /\ (circuitBreaker.state = "CLOSED" /\ circuitBreaker'.state = "OPEN") =>
          /\ FailureHandled
          /\ circuitBreaker'.failures = maxFailures]_vars

\* the breaker has opened at its fifth consecutive failure, after earlier
\* failures that a success had wiped out
ConsecutiveFailuresWitness ==
  /\ circuitBreaker.state = "OPEN"
  /\ circuitBreaker.failures = maxFailures
  /\ stats.circuitBreakerTrips = 1
  /\ stats.apiFailures > maxFailures

----------------------------------------------------------------------------
(* Retries *)

\* C17: a lookup whose upstream attempts all failed, none of them rate
\* limited and with the breaker not OPEN, has made maxRetries + 1 attempts
AttemptsMade ==
  returned.via = "failed" => returned.attempt = opts.maxRetries + 1

----------------------------------------------------------------------------
(* Responses without a location *)

\* lines 179-189: the request of call c is answered with the body data
Answered(c, data) == FetchSuccess(c, data) \/ FetchNoData(c, data)

\* C18: when a request is answered with status "fail", or with coordinates
\* that are not numbers or are out of range, the lookup ends in that step
\* with null, without another attempt; its IP is cached with null, and the
\* breaker and the count of API failures are left as they were
NoDataIsNoFailure ==
  [][\A c \in Calls, data \in {RespFail, RespOutOfRange, RespNotNumeric} :
       Answered(c, data) =>
         /\ c \in returned'.callers
         /\ returned'.value = Null
         /\ returned'.attempt = calls[c].attempt
         /\ calls'[c].pc = "idle"
         /\ stats'.apiCalls = stats.apiCalls
         /\ admissions' = admissions
         /\ cacheHas(cache', calls[c].ip)
         /\ cacheGet(cache', calls[c].ip) = Null
         /\ circuitBreaker' = circuitBreaker
         /\ stats'.apiFailures = stats.apiFailures]_vars

\* an attempt that an error would have retried was answered without a
\* location, while a failure was on the count
NoDataIsNoFailureWitness ==
  /\ returned.via = "noData"
  /\ returned.attempt < opts.maxRetries
  /\ cacheHas(cache, returned.ip)
  /\ circuitBreaker.failures > 0

----------------------------------------------------------------------------
(* Lookups of a cached IP *)

\* the cache c holds value under ip
Holds(c, ip, value) == \E i \in 1..Len(c) : c[i].ip = ip /\ c[i].value = value

\* C19: a pipeline that settles leaves its result in the cache under its
\* IP; while the cache holds an IP no lookup starts or joins a pipeline for
\* it; and a lookup of an IP that the cache holds returns at once the value
\* held, keeps it in the cache, and admits and calls nothing upstream
CachedIsServed ==
  [][/\ \A c \in Calls :
          /\ (calls[c].pc \in InFlight /\ calls'[c].pc = "idle") =>
               Holds(cache', calls[c].ip, returned'.value)
          /\ (calls[c].pc = "idle" /\ calls'[c].pc # "idle") =>
               ~cacheHas(cache, calls'[c].ip)
          /\ calls[c].pc \in InFlight => ~cacheHas(cache, calls[c].ip)
     /\ (ReturnsAtOnce /\ cacheHas(cache, returned'.ip)) =>
          /\ Holds(cache, returned'.ip, returned'.value)
          /\ Holds(cache', returned'.ip, returned'.value)
          /\ admissions' = admissions
          /\ requestQueue' = requestQueue
          /\ stats'.apiCalls = stats.apiCalls
          /\ pendingRequests' = pendingRequests
          /\ circuitBreaker' = circuitBreaker]_vars

\* the IP of a failed lookup has been looked up again and served from the
\* cache while the breaker was OPEN and the minimum spacing not yet over
CachedIsServedWitness ==
  /\ returned.via = "hit"
  /\ returned.value = Null
  /\ circuitBreaker.state = "OPEN"
  /\ now - lastRequestTime < opts.minRequestDelay

----------------------------------------------------------------------------
(* What a lookup resolves to *)

\* lines 191-196: a location record
IsLocation(v) ==
  /\ v.kind = "location"
  /\ v.lat \in -90..90
  /\ v.lng \in -180..180

\* the ways in which a lookup ends without a location
NullEnds ==
  {"invalid", "private", "breakerOpen", "rateLimited", "noData", "swallowed", "failed"}

\* C20: whatever a lookup resolves to is null or a location record, and it is
\* null when the lookup ends by an invalid input, a private IP, a rate-limit
\* rejection, an open breaker or an upstream failure
ResolvesToLocationOrNull ==
  /\ returned.value = Null \/ IsLocation(returned.value)
  /\ returned.via \in NullEnds => returned.value = Null
  /\ returned.via = "location" => IsLocation(returned.value)
  /\ \A i \in 1..Len(cache) : cache[i].value = Null \/ IsLocation(cache[i].value)

\* an upstream failure has resolved the promise of two callers with null
ResolvesToLocationOrNullWitness ==
  /\ returned.via = "failed"
  /\ returned.value = Null
  /\ Cardinality(returned.callers) = 2

----------------------------------------------------------------------------
(* Termination *)

\* C21: no lookup makes more than maxRetries attempts; every lookup under
\* way eventually settles, and every pending entry is eventually removed
EverySettles ==
  /\ [](\A c \in CallIds : calls[c].attempt <= opts.maxRetries)
  /\ \A c \in CallIds : (calls[c].pc # "idle") ~> (calls[c].pc = "idle")
  /\ \A ip \in {IpA, IpB} :
       (ip \in DOMAIN pendingRequests) ~> (ip \notin DOMAIN pendingRequests)

\* a lookup whose attempts all failed has settled after the last lookup was
\* called, and nothing is left pending
EverySettlesWitness ==
  /\ ~Calling
  /\ returned.via = "failed"
  /\ returned.attempt = opts.maxRetries
  /\ pendingRequests = <<>>
  /\ \A c \in Calls : calls[c].pc = "idle"

----------------------------------------------------------------------------
(* The statistics *)

\* lines 39-47: the counters of this.stats
Counters ==
  {"totalLookups", "cacheHits", "cacheMisses", "apiCalls", "apiFailures",
   "rateLimitHits", "circuitBreakerTrips"}

\* C22: no step decreases a counter of the statistics
CountersNeverDecrease ==
  [][\A k \in Counters : stats'[k] >= stats[k]]_vars

----------------------------------------------------------------------------
(* Lookups that end before an upstream call *)

\* lines 94-97: a lookup is short-circuited by the OPEN breaker in this step
ShortCircuited == ReturnsAtOnce /\ returned'.via = "breakerOpen"

\* lines 136-137: a lookup ends in this step by a rejection of the rate limiter
Rejected == \E c \in Calls : calls[c].pc = "rateLimited" /\ calls'[c].pc = "idle"

\* C23: a lookup that ends because the breaker is OPEN, or because the rate
\* limiter rejected it, leaves the cache as it was
EarlyReturnKeepsCache ==
  [][(ShortCircuited \/ Rejected) => cache' = cache]_vars

----------------------------------------------------------------------------
(* Rejections of the rate limiter *)

\* lines 220 and 236: checkRateLimit throws for call c in this step
Throws(c) == calls[c].pc # "rateLimited" /\ calls'[c].pc = "rateLimited"

\* C24: each rejection by the rate limiter adds one to rateLimitHits
RejectionsCounted ==
  [][\A c \in Calls :
       Throws(c) => stats'.rateLimitHits = stats.rateLimitHits + 1]_vars

\* C25: the step in which checkRateLimit throws for a lookup under way, and
\* the step in which the rejected lookup ends, leave the breaker and
\* apiFailures as they were, and the lookup ends with null; a lookup that is
\* rejected in the step that starts it changes at most the state of the
\* breaker, by line 92 and before its pipeline starts
RejectionIsSoft ==
  [][\A c \in Calls :
       /\ Throws(c) =>
            /\ circuitBreaker'.failures = circuitBreaker.failures
            /\ circuitBreaker'.lastFailureTime = circuitBreaker.lastFailureTime
            /\ stats'.apiFailures = stats.apiFailures
            /\ \/ circuitBreaker'.state = circuitBreaker.state
               \/ /\ calls[c].pc = "idle"
                  /\ <<circuitBreaker.state, circuitBreaker'.state>> = <<"OPEN", "HALF_OPEN">>
       /\ (calls[c].pc = "rateLimited" /\ calls'[c].pc = "idle") =>
            /\ c \in returned'.callers
            /\ returned'.value = Null
            /\ circuitBreaker' = circuitBreaker
            /\ stats'.apiFailures = stats.apiFailures]_vars

\* a lookup has ended with null because its retry was rejected
RejectionIsSoftWitness ==
  /\ returned.via = "rateLimited"
  /\ returned.attempt = 2
  /\ returned.value = Null
  /\ stats.apiFailures = 0

----------------------------------------------------------------------------
(* The minimum spacing *)

\* call c enters checkRateLimit in this step, for its first attempt or a retry
Checks(c) == Starts(c) \/ (calls[c].pc = "retryWait" /\ calls'[c].pc # "retryWait")

\* lines 216-218: what the time since the last admission is short of minRequestDelay
Deficit == opts.minRequestDelay - (now - lastRequestTime)

\* C26: a call that enters checkRateLimit with a deficit above MaxWait is
\* rejected in that step, and lastRequestTime and the window stay as they
\* were; with a deficit of at most MaxWait it sleeps until now + deficit, and
\* then goes through the window gate, which admits or rejects it; without a
\* deficit it goes through the window gate at once
SpacingGate ==
  [][\A c \in Calls :
       /\ (Checks(c) /\ Deficit > MaxWait) =>
            /\ calls'[c].pc = "rateLimited"
            /\ lastRequestTime' = lastRequestTime
            /\ requestQueue' = requestQueue
            /\ admissions' = admissions
       /\ (Checks(c) /\ Deficit > 0 /\ Deficit <= MaxWait) =>
            /\ calls'[c].pc = "spacingWait"
            /\ calls'[c].due = now + Deficit
            /\ lastRequestTime' = lastRequestTime
            /\ requestQueue' = requestQueue
            /\ admissions' = admissions
       /\ (Checks(c) /\ Deficit <= 0) => calls'[c].pc \in {"admitted", "rateLimited"}
       /\ (calls[c].pc = "spacingWait" /\ calls'[c].pc # "spacingWait") =>
            /\ now = calls[c].due
            /\ calls'[c].pc \in {"admitted", "rateLimited"}]_vars

\* a call has slept for a deficit of MaxWait and has then been admitted
SpacingGateWitness ==
  \E c \in Calls :
    /\ calls[c].pc = "admitted"
    /\ calls[c].due = now
    /\ now - calls[c].now0 = MaxWait

----------------------------------------------------------------------------
(* The rate window *)

\* C27: when the window is full and requestWindow has passed since the last
\* admission, the next call that enters checkRateLimit is admitted, and the
\* window then holds its timestamp only
WindowReopens ==
  [][\A c \in Calls :
       (/\ Checks(c)
        /\ Len(requestQueue) >= opts.maxRequestsPerMinute
        /\ now - lastRequestTime >= requestWindow) =>
            /\ calls'[c].pc = "admitted"
            /\ requestQueue' = <<now>>
            /\ lastRequestTime' = now
            /\ stats'.rateLimitHits = stats.rateLimitHits]_vars

\* the window has been full and has rejected a call, and a call made
\* requestWindow after the last admission has just been admitted
WindowReopensWitness ==
  /\ stats.rateLimitHits > 0
  /\ Len(admissions) = WindowCap + 1
  /\ admissions[WindowCap + 1] = now
  /\ now - admissions[WindowCap] >= requestWindow
  /\ admissions[WindowCap] - admissions[1] < requestWindow
  /\ requestQueue = <<now>>
  /\ \E c \in Calls : calls[c].pc = "admitted"

----------------------------------------------------------------------------
(* Private addresses and the breaker *)

\* a lookup of an address that isPrivateIP recognises returns in this step
PrivateReturns == ReturnsAtOnce /\ isPrivateIP(returned'.ip)

----------------------------------------------------------------------------
(* The end of a pipeline *)

\* the pipeline of call c settles in this step
Settles(c) == calls[c].pc \in InFlight /\ calls'[c].pc \notin InFlight

----------------------------------------------------------------------------
(* The cache and the pending requests *)

\* the IPs that have a pending request
PendingKeys == DOMAIN pendingRequests

\* C30: no IP is at once a key of the cache and a key of the pending
\* requests; a pending request is created only for an IP that has neither a
\* cache entry nor a pending request, and as long as it stays pending no
\* cache entry for its IP appears
CacheOrPending ==
  /\ [](PendingKeys \cap CacheKeys(cache) = {})
  /\ [][/\ \A ip \in PendingKeys' \ PendingKeys :
             ip \notin CacheKeys(cache) /\ ip \notin CacheKeys(cache')
        /\ \A ip \in PendingKeys \cap PendingKeys' :
             /\ pendingRequests'[ip] = pendingRequests[ip]
             /\ ip \notin CacheKeys(cache')]_vars

\* an IP that was cached and then evicted is looked up again: it is pending
\* while the cache holds the IP that replaced it
CacheOrPendingWitness ==
  \E ip \in PendingKeys :
    /\ \E i \in 1..Len(inserted) : inserted[i] = ip
    /\ Len(cache) = opts.maxCacheSize
    /\ ip \notin CacheKeys(cache)

----------------------------------------------------------------------------
(* Rejected inputs *)

\* lookup(ip) is called in this step, in frame c
Lookup(c, ip) ==
  \/ LookupInvalid(c, ip)
  \/ LookupHit(c, ip)
  \/ LookupJoin(c, ip)
  \/ LookupPrivate(c, ip)
  \/ LookupBreakerOpen(c, ip)
  \/ LookupStart(c, ip)

\* C31: a lookup of an input that is not a string, is empty or blank, or has
\* more than MaxIpLength characters returns null at once; it adds one to
\* totalLookups and changes nothing else in the statistics, the cache, the
\* pending requests, the breaker and the rate window
InvalidTouchesNothing ==
  [][\A c \in CallIds, ip \in InvalidInputs :
       Lookup(c, ip) =>
         /\ calls' = calls
         /\ returned'.value = Null
         /\ returned'.callers = {c}
         /\ stats' = [stats EXCEPT !.totalLookups = @ + 1]
         /\ cache' = cache
         /\ pendingRequests' = pendingRequests
         /\ circuitBreaker' = circuitBreaker
         /\ requestQueue' = requestQueue
         /\ lastRequestTime' = lastRequestTime]_vars

\* an input has been rejected while a pipeline was under way, the cache
\* not empty and the rate window not empty
InvalidTouchesNothingWitness ==
  /\ returned.via = "invalid"
  /\ returned.value = Null
  /\ PendingKeys # {}
  /\ Len(cache) > 0
  /\ requestQueue # <<>>

----------------------------------------------------------------------------
(* The failure counter of an open breaker *)

\* C34: while the breaker is OPEN its failure counter is at least maxFailures
OpenMeansFailed ==
  circuitBreaker.state = "OPEN" => circuitBreaker.failures >= maxFailures

----------------------------------------------------------------------------
(* The ways out of HALF_OPEN *)

\* a pipeline ends in this step with null, without a counted failure: the
\* API reported no data or bad coordinates, or checkRateLimit rejected
EndsEmpty == (\E c \in Calls : Settles(c)) /\ returned'.via \in {"noData", "rateLimited"}

\* C35: a pipeline that ends with no data, with invalid coordinates or with
\* a rate-limit rejection leaves the breaker as it is, so a HALF_OPEN
\* breaker stays HALF_OPEN with its failure count; the breaker leaves
\* HALF_OPEN only to CLOSED by a located request or by resetCircuitBreaker,
\* or to OPEN by a counted failure that takes the count to maxFailures or more
HalfOpenExits ==
  /\ [][EndsEmpty => circuitBreaker' = circuitBreaker]_vars
  /\ [][(circuitBreaker.state = "HALF_OPEN" /\ circuitBreaker'.state # "HALF_OPEN") =>
          \/ /\ \E c \in Calls : Located(c)
             /\ circuitBreaker'.state = "CLOSED"
             /\ circuitBreaker'.failures = 0
          \/ /\ \E c \in Calls : Settles(c)
             /\ returned'.via = "failed"
             /\ circuitBreaker'.state = "OPEN"
             /\ circuitBreaker'.failures = circuitBreaker.failures + 1
             /\ circuitBreaker'.failures >= maxFailures
          \/ /\ calls' = calls
             /\ stats' = stats
             /\ circuitBreaker'.state = "CLOSED"
             /\ circuitBreaker'.failures = 0]_vars

\* while the breaker was HALF_OPEN a request has been answered with no
\* data, and the breaker is HALF_OPEN still
HalfOpenExitsWitness ==
  /\ returned.via = "noData"
  /\ circuitBreaker.state = "HALF_OPEN"
  /\ circuitBreaker.failures >= maxFailures
  /\ \A c \in Calls : calls[c].pc = "idle"

----------------------------------------------------------------------------
(* Requests and admissions *)

\* the calls that checkRateLimit has admitted and whose request is not yet
\* sent: the continuation of line 153 has not run
Admitted == {c \in Calls : calls[c].pc = "admitted"}

\* call c sends a request in this step
Sends(c) == calls[c].pc # "fetching" /\ calls'[c].pc = "fetching"

\* C36, as stated: stats.apiCalls is the number of timestamps that
\* checkRateLimit has ever appended to the window
ApiCallsAreAdmissions == stats.apiCalls = Len(admissions)

\* C36, amended: every request, a retry included, is sent by a call that
\* checkRateLimit has admitted for this attempt, and uses up that admission;
\* stats.apiCalls is the number of admissions less those whose request is
\* not yet sent, and so equals it whenever no admitted call waits to resume
AttemptsAdmitted ==
  /\ [](stats.apiCalls + Cardinality(Admitted) = Len(admissions))
  /\ [][\A c \in Calls :
          /\ Sends(c) =>
               /\ c \in Admitted
               /\ stats'.apiCalls = stats.apiCalls + 1
               /\ admissions' = admissions
          /\ (c \in Admitted /\ calls'[c].pc # "admitted") => Sends(c)
          /\ (c \notin Admitted /\ calls'[c].pc = "admitted") =>
               /\ Len(admissions') = Len(admissions) + 1
               /\ stats'.apiCalls = stats.apiCalls]_vars

\* a retry has been admitted and sent: two admissions, two requests
AttemptsAdmittedWitness ==
  \E c \in Calls :
    /\ calls[c].pc = "fetching"
    /\ calls[c].attempt = 2
    /\ stats.apiCalls = 2
    /\ Len(admissions) = 2

----------------------------------------------------------------------------
(* The length of the rate window *)

\* C37: requestQueue never holds more than maxRequestsPerMinute timestamps
WindowBounded == Len(requestQueue) <= opts.maxRequestsPerMinute

\* a call that slept in checkRateLimit has gone through the window gate
\* with the clock value it read before the sleep, while another call was
\* in its pipeline, and has found the window full
WindowBoundedWitness ==
  \E c \in Calls :
    /\ calls[c].pc = "rateLimited"
    /\ calls[c].due = now
    /\ calls[c].now0 < now
    /\ calls[c].now0 >= StartTime
    /\ Len(requestQueue) = opts.maxRequestsPerMinute
    /\ \E d \in Calls \ {c} : calls[d].pc \in InFlight

----------------------------------------------------------------------------
(* clearCache *)

\* clearCache shows in this step: a cache that held entries is empty, or a
\* hit or miss counter that was positive is zero
Clears ==
  \/ cache # <<>> /\ cache' = <<>>
  \/ stats.cacheHits > 0 /\ stats'.cacheHits = 0
  \/ stats.cacheMisses > 0 /\ stats'.cacheMisses = 0

\* C38: clearCache empties the cache and the rate window and zeroes
\* cacheHits and cacheMisses; it leaves the pending requests, the lookups in
\* progress, the breaker, lastRequestTime and the other counters as they
\* were, and a pipeline that settles afterwards still writes its result to
\* the cache and returns it to every call that waits for it
ClearKeepsPipelines ==
  /\ [][Clears =>
          /\ requestQueue' = <<>>
          /\ stats' = [stats EXCEPT !.cacheHits = 0, !.cacheMisses = 0]
          /\ pendingRequests' = pendingRequests
          /\ calls' = calls
          /\ circuitBreaker' = circuitBreaker
          /\ lastRequestTime' = lastRequestTime]_vars
  /\ [][\A c \in Calls :
          (Settles(c) /\ stats.cacheMisses = 0) =>
            /\ cache' = addToCache(cache, calls[c].ip, returned'.value)
            /\ returned'.callers = Holders(c)
            /\ \A j \in Holders(c) : calls'[j].pc = "idle"]_vars

\* clearCache ran while a pipeline with a joined lookup was under way; the
\* pipeline has then found a location, returned it to both and cached it
ClearKeepsPipelinesWitness ==
  /\ stats.cacheMisses = 0
  /\ stats.totalLookups >= 2
  /\ Cardinality(returned.callers) = 2
  /\ returned.via = "location"
  /\ cache = <<[ip |-> returned.ip, value |-> returned.value]>>

----------------------------------------------------------------------------
(* AdGuardClient._fetchWithRetry (server/adguard-client.js) *)

Requests == DOMAIN adguard.requests

\* this._delay(ms) of the retry that follows the failure of the attempt
\* made with retryCount
RetryDelay(retryCount) == adguard.retryDelay * (retryCount + 1)

\* _fetchWithRetry(url): the first attempt is sent
FetchWithRetry(r) ==
  /\ r \in Requests
  /\ adguard.requests[r].pc \in {"idle", "returned", "thrown"}
  /\ adguard' = [adguard EXCEPT !.requests[r] = [NoRequest EXCEPT !.pc = "fetching"]]
  /\ UNCHANGED <<geo, browser, server>>

\* the response is ok and its body is parsed: the request returns
Responds(r) ==
  /\ r \in Requests
  /\ adguard.requests[r].pc = "fetching"
  /\ adguard' = [adguard EXCEPT !.requests[r].pc = "returned"]
  /\ UNCHANGED <<geo, browser, server>>

\* _fetch throws (network error, status not ok, timeout) or the body is
\* not JSON: the catch either delays and retries or rethrows
Fails(r) ==
  /\ r \in Requests
  /\ adguard.requests[r].pc = "fetching"
  /\ LET f == adguard.requests[r]
     IN  adguard' =
           IF f.retryCount < adguard.maxRetries
           THEN [adguard EXCEPT !.requests[r].pc = "delaying",
                                !.requests[r].slept = Append(@, RetryDelay(f.retryCount))]
           ELSE [adguard EXCEPT !.requests[r].pc = "thrown"]
  /\ UNCHANGED <<geo, browser, server>>

\* the delay is over: _fetchWithRetry(url, options, retryCount + 1)
DelayOver(r) ==
  /\ r \in Requests
  /\ adguard.requests[r].pc = "delaying"
  /\ adguard' = [adguard EXCEPT !.requests[r].pc = "fetching",
                                !.requests[r].retryCount = @ + 1]
  /\ UNCHANGED <<geo, browser, server>>

\* the client as server/index.js constructs it, and with options
AdGuardOptions == {NoClientOptions, [maxRetries |-> 1, retryDelay |-> 500]}

AdGuardInit ==
  /\ Constructed(NoOptions, 0, 0, 0)
  /\ \E options \in AdGuardOptions : adguard = AdGuardClient(options, MaxRequests)
  /\ browser = BrowserState
  /\ server = ServerState(0, 0)

AdGuardNext ==
  \E r \in 1..MaxRequests :
    \/ FetchWithRetry(r)
    \/ Responds(r)
    \/ Fails(r)
    \/ DelayOver(r)

SpecAdGuard == AdGuardInit /\ [][AdGuardNext]_vars

\* C32: a request is retried at most maxRetries times; the first retry
\* follows a delay of retryDelay and every further retry a delay twice as
\* long as the one before
ExponentialBackoff ==
  \A r \in Requests :
    LET slept == adguard.requests[r].slept
    IN  /\ Len(slept) <= adguard.maxRetries
        /\ adguard.requests[r].retryCount <= adguard.maxRetries
        /\ slept # <<>> => slept[1] = adguard.retryDelay
        /\ \A i \in 2..Len(slept) : slept[i] = 2 * slept[i - 1]

----------------------------------------------------------------------------
(* The browser client: connecting and reconnecting its WebSocket *)

RECONNECT_BASE_DELAY == 1000
RECONNECT_MAX_DELAY == 30000
RECONNECT_MAX_ATTEMPTS == 10

Min(a, b) == IF a <= b THEN a ELSE b

\* a delay that is not capped
ReconnectDelayUncapped(n) == RECONNECT_BASE_DELAY * 2 ^ (n - 1)

\* the delay of scheduleReconnect when reconnectAttempts has become n
ReconnectDelay(n) == Min(RECONNECT_BASE_DELAY * 2 ^ (n - 1), RECONNECT_MAX_DELAY)

\* the id that setTimeout returns: one that no pending timeout has
NewTimer(timers) == CHOOSE id \in 1..(Cardinality(timers) + 1) : id \notin timers

\* scheduleReconnect() in the state b
scheduleReconnect(b) ==
  IF b.reconnectTimeoutId # 0 THEN b
  ELSE IF b.reconnectAttempts >= RECONNECT_MAX_ATTEMPTS THEN b
  ELSE LET n == b.reconnectAttempts + 1
           id == NewTimer(b.timers)
       IN  [b EXCEPT !.reconnectAttempts = n, !.delay = ReconnectDelay(n),
                     !.reconnectTimeoutId = id, !.timers = @ \cup {id}]

\* connectWebSocket() in the state b: a socket is created, or its
\* constructor throws and the catch schedules a reconnect
connectWebSocket(b, throws) ==
  IF throws THEN scheduleReconnect(b) ELSE [b EXCEPT !.ws = "connecting"]

\* DOMContentLoaded: initApp()
initApp(throws) ==
  /\ ~browser.loaded
  /\ browser' = connectWebSocket([browser EXCEPT !.loaded = TRUE], throws)
  /\ UNCHANGED <<geo, adguard, server>>

onWebSocketOpen ==
  /\ browser.ws = "connecting"
  /\ browser' = [browser EXCEPT !.ws = "open", !.reconnectAttempts = 0]
  /\ UNCHANGED <<geo, adguard, server>>

\* the error event of the socket: the handler only shows the status; the
\* socket will close
onWebSocketError ==
  /\ browser.ws \in {"connecting", "open"}
  /\ browser' = [browser EXCEPT !.ws = "failing"]
  /\ UNCHANGED <<geo, adguard, server>>

\* the close event of the socket, with its code
onWebSocketClose(code) ==
  /\ browser.ws \in {"connecting", "open", "failing", "closing"}
  /\ LET closed == [browser EXCEPT !.ws = "closed"]
     IN  browser' = IF code # 1000 THEN scheduleReconnect(closed) ELSE closed
  /\ UNCHANGED <<geo, adguard, server>>

\* the callback of the timeout id set by scheduleReconnect
ReconnectTimer(id, throws) ==
  /\ id \in browser.timers
  /\ browser' = connectWebSocket([browser EXCEPT !.timers = @ \ {id},
                                                 !.reconnectTimeoutId = 0], throws)
  /\ UNCHANGED <<geo, adguard, server>>

\* beforeunload: cleanup() closes the socket with code 1000 and clears the
\* timeout that reconnectTimeoutId names, which keeps its value
cleanup ==
  /\ browser.loaded
  /\ browser' = [browser EXCEPT
                   !.ws = IF @ \in {"connecting", "open", "failing"} THEN "closing" ELSE @,
                   !.timers = @ \ {browser.reconnectTimeoutId}]
  /\ UNCHANGED <<geo, adguard, server>>

CloseCodes == {1000, 1006}

BrowserInit ==
  /\ Constructed(NoOptions, 0, 0, 0)
  /\ adguard = AdGuardClient(NoClientOptions, 0)
  /\ browser = BrowserState
  /\ server = ServerState(0, 0)

BrowserNext ==
  \/ \E throws \in BOOLEAN : initApp(throws)
  \/ onWebSocketOpen
  \/ onWebSocketError
  \/ \E code \in CloseCodes : onWebSocketClose(code)
  \/ \E id \in 1..2, throws \in BOOLEAN : ReconnectTimer(id, throws)
  \/ cleanup

SpecBrowser == BrowserInit /\ [][BrowserNext]_vars

\* a reconnect is scheduled in this step
Schedules == browser'.timers \ browser.timers # {}

\* C33: at most one reconnect timer is pending, and it is the one that
\* reconnectTimeoutId names; reconnectAttempts never exceeds
\* RECONNECT_MAX_ATTEMPTS; a reconnect is scheduled only when no timer is
\* pending and fewer than RECONNECT_MAX_ATTEMPTS attempts are counted, it
\* counts one attempt more, and its delay for attempt n is
\* min(1000 * 2^(n-1), 30000); every open sets reconnectAttempts to 0
ReconnectBounded ==
  /\ [](/\ Cardinality(browser.timers) <= 1
        /\ browser.timers \subseteq {browser.reconnectTimeoutId} \ {0}
        /\ browser.reconnectAttempts \in 0..10)
  /\ [][Schedules =>
          /\ browser.timers = {}
          /\ browser.reconnectAttempts < 10
          /\ browser'.reconnectAttempts = browser.reconnectAttempts + 1
          /\ LET n == browser'.reconnectAttempts
                 double == 1000 * 2 ^ (n - 1)
             IN  browser'.delay = IF double < 30000 THEN double ELSE 30000]_vars
  /\ [][(browser.ws # "open" /\ browser'.ws = "open") =>
          browser'.reconnectAttempts = 0]_vars

\* ten reconnects in a row have failed, the last one after the longest
\* delay, and the close of the last socket has scheduled nothing
ReconnectBoundedWitness ==
  /\ browser.reconnectAttempts = RECONNECT_MAX_ATTEMPTS
  /\ browser.ws = "closed"
  /\ browser.timers = {}
  /\ browser.delay = RECONNECT_MAX_DELAY

----------------------------------------------------------------------------
(* The server: client sockets, the polling timers and pollDNSLogs *)

\* client sockets, polls under way at a time, polls started in all, and the
\* configured MAX_PROCESSED_IDS
MaxSockets == 2
MaxPolls == 2
MaxRuns == 3
MaxProcessedIds == 2

pollInterval == 2000
ServerSeconds == 4

\* the entries that AdGuard's query log can hold: the first two differ in
\* domain and client and have the same entryId
LogEntries ==
  {[timestamp |-> StartTime - 1000, domain |-> "a", client |-> "b-c"],
   [timestamp |-> StartTime - 1000, domain |-> "a-b", client |-> "c"],
   [timestamp |-> StartTime, domain |-> "a", client |-> "c"],
   [timestamp |-> StartTime + pollInterval, domain |-> "a", client |-> "c"]}

\* what getQueryLog can resolve to at the time t
Logs(t) ==
  LET known == {e \in LogEntries : e.timestamp <= t}
  IN  {<<>>} \cup {<<e>> : e \in known} \cup {<<e, f>> : e, f \in known}

\* `${entry.timestamp.getTime()}-${entry.domain}-${entry.client}`
entryId(entry) ==
  ToString(entry.timestamp) \o "-" \o entry.domain \o "-" \o entry.client

Items(seq) == {seq[k] : k \in DOMAIN seq}

\* how many polls have taken the id since it entered processedIds
Taken(taken, id) == IF id \in DOMAIN taken THEN taken[id] ELSE 0

\* processedIds.add(entryId) without the eviction
addOnly(s, id) ==
  [s EXCEPT !.processedIds = IF id \in Items(@) THEN @ ELSE Append(@, id),
            !.taken = [x \in DOMAIN @ \cup {id} |-> Taken(@, x) + IF x = id THEN 1 ELSE 0]]

\* processedIds.add(entryId), and the oldest id leaves when the set has
\* grown beyond MAX_PROCESSED_IDS
add(s, id) ==
  LET added == addOnly(s, id)
  IN  IF Len(added.processedIds) > s.MAX_PROCESSED_IDS
      THEN LET firstId == Head(added.processedIds)
           IN  [added EXCEPT !.processedIds = Tail(@),
                             !.taken = [x \in DOMAIN @ \ {firstId} |-> @[x]]]
      ELSE added

\* a loop that never skips
firstNewAny(ids, entries) == IF entries = <<>> THEN 0 ELSE 1

\* the index of the first entry of `entries` whose id is not in ids, or 0
firstNew(ids, entries) ==
  LET new == {k \in DOMAIN entries : entryId(entries[k]) \notin ids}
  IN  IF new = {} THEN 0 ELSE CHOOSE k \in new : \A j \in new : k <= j

\* the for loop of pollDNSLogs in poll p from `entries` on, up to its next
\* await or to its end
loop(s, p, entries) ==
  LET k == firstNew(Items(s.processedIds), entries)
  IN  IF k = 0
      THEN [s EXCEPT !.polls[p] = NoPoll]
      ELSE [add(s, entryId(entries[k])) EXCEPT
              !.polls[p] = [pc |-> "processing",
                            entries |-> SubSeq(entries, k, Len(entries)),
                            skippedDuplicates |-> s.polls[p].skippedDuplicates + (k - 1)]]

\* a poll can start within the bounds
CanPoll(s) == s.runs < MaxRuns /\ \E p \in DOMAIN s.polls : s.polls[p].pc = "idle"

\* pollDNSLogs() up to its first await
pollDNSLogs(s) ==
  LET p == CHOOSE p \in DOMAIN s.polls : s.polls[p].pc = "idle"
  IN  [s EXCEPT !.polls[p].pc = "fetching", !.runs = @ + 1]

\* startPolling() without the test of dnsPollingInterval
startPollingAgain(s) ==
  IF s.activeConnections = {} THEN s
  ELSE LET dnsId == NewTimer(s.dnsTimers)
           statsId == NewTimer(s.statsTimers)
       IN  pollDNSLogs([s EXCEPT !.dnsPollingInterval = dnsId, !.dnsTimers = @ \cup {dnsId},
                                 !.statsPollingInterval = statsId,
                                 !.statsTimers = @ \cup {statsId}])

startPolling(s) ==
  IF s.dnsPollingInterval # 0 \/ s.activeConnections = {} THEN s
  ELSE LET dnsId == NewTimer(s.dnsTimers)
           statsId == NewTimer(s.statsTimers)
       IN  pollDNSLogs([s EXCEPT !.dnsPollingInterval = dnsId, !.dnsTimers = @ \cup {dnsId},
                                 !.statsPollingInterval = statsId,
                                 !.statsTimers = @ \cup {statsId}])

stopPolling(s) ==
  IF s.activeConnections # {} THEN s
  ELSE [s EXCEPT !.dnsTimers = @ \ {s.dnsPollingInterval}, !.dnsPollingInterval = 0,
                 !.statsTimers = @ \ {s.statsPollingInterval},
                 !.statsPollingInterval = 0]

\* wss.on('connection'): handleWebSocketConnection(ws)
handleWebSocketConnection(w) ==
  /\ server.sockets[w] = "new"
  /\ server.dnsPollingInterval = 0 => CanPoll(server)
  /\ server' = startPolling([server EXCEPT !.sockets[w] = "open",
                                            !.activeConnections = @ \cup {w}])
  /\ UNCHANGED <<geo, adguard, browser>>

\* ws.on('close')
onClose(w) ==
  /\ server.sockets[w] \in {"open", "errored"}
  /\ server' = stopPolling([server EXCEPT !.sockets[w] = "closed",
                                           !.activeConnections = @ \ {w}])
  /\ UNCHANGED <<geo, adguard, browser>>

\* ws.on('error'): the socket will close
onError(w) ==
  /\ server.sockets[w] = "open"
  /\ server' = stopPolling([server EXCEPT !.sockets[w] = "errored",
                                           !.activeConnections = @ \ {w}])
  /\ UNCHANGED <<geo, adguard, browser>>

\* the callback of the interval id set by startPolling: pollDNSLogs()
DnsPollingInterval(id) ==
  /\ id \in server.dnsTimers
  /\ CanPoll(server)
  /\ server' = pollDNSLogs(server)
  /\ UNCHANGED <<geo, adguard, browser>>

\* getQueryLog resolves in poll p: the entries newer than the cutoff are
\* taken one by one
QueryLog(p, logs) ==
  /\ server.polls[p].pc = "fetching"
  /\ logs \in Logs(now)
  /\ LET cutoffTime == server.lastPollTime - 2000
         newEntries == SelectSeq(logs, LAMBDA entry : entry.timestamp > cutoffTime)
     IN  server' = loop([server EXCEPT !.lastPollTime = now], p, newEntries)
  /\ UNCHANGED <<geo, adguard, browser>>

\* getQueryLog rejects in poll p
QueryLogFails(p) ==
  /\ server.polls[p].pc = "fetching"
  /\ server' = [server EXCEPT !.polls[p] = NoPoll]
  /\ UNCHANGED <<geo, adguard, browser>>

\* processDNSEntry(entry) resolves in poll p
EntryProcessed(p) ==
  /\ server.polls[p].pc = "processing"
  /\ server' = loop(server, p, Tail(server.polls[p].entries))
  /\ UNCHANGED <<geo, adguard, browser>>

\* time passes
ServerTick ==
  /\ now + pollInterval <= StartTime + env.horizon
  /\ now' = now + pollInterval
  /\ UNCHANGED <<opts, env, peers, service, calls, history>>

ProcessedIdsSettings == {0, MaxProcessedIds}

ServerInit ==
  /\ Constructed(NoOptions, 0, 0, ServerSeconds * 1000)
  /\ adguard = AdGuardClient(NoClientOptions, 0)
  /\ browser = BrowserState
  /\ \E setting \in ProcessedIdsSettings :
       server = [ServerState(MaxSockets, MaxPolls) EXCEPT
                   !.MAX_PROCESSED_IDS = OrElse(setting, 1000)]

ServerNext ==
  \/ \E w \in 1..MaxSockets : handleWebSocketConnection(w) \/ onClose(w) \/ onError(w)
  \/ \E id \in 1..2 : DnsPollingInterval(id)
  \/ \E p \in 1..MaxPolls :
       \/ \E logs \in Logs(StartTime + ServerSeconds * 1000) : QueryLog(p, logs)
       \/ QueryLogFails(p)
       \/ EntryProcessed(p)
  \/ ServerTick

SpecServer == ServerInit /\ [][ServerNext]_vars

\* C39: the DNS polling timer and the stats polling timer are both active
\* exactly when there are active connections, neither is active when there
\* are none, and there is at most one timer of each kind
TimersFollowConnections ==
  /\ Cardinality(server.dnsTimers) <= 1
  /\ Cardinality(server.statsTimers) <= 1
  /\ (server.dnsTimers # {} /\ server.statsTimers # {}) <=> server.activeConnections # {}
  /\ (server.dnsTimers # {} \/ server.statsTimers # {}) => server.activeConnections # {}

\* one client is gone and the other still there: the timers go on
TimersFollowConnectionsWitness ==
  /\ \E w \in DOMAIN server.sockets : server.sockets[w] = "closed"
  /\ server.activeConnections # {}
  /\ server.dnsTimers # {}
  /\ server.statsTimers # {}

\* the ids that are in processedIds
Processed == Items(server.processedIds)

\* C40: an id that is in processedIds has been taken for processDNSEntry by
\* exactly one pollDNSLogs since it entered, whatever polls are under way,
\* and processedIds holds no id twice and at most MAX_PROCESSED_IDS ids
ProcessedOnce ==
  /\ \A id \in Processed : Taken(server.taken, id) = 1
  /\ DOMAIN server.taken = Processed
  /\ Cardinality(Processed) = Len(server.processedIds)
  /\ Len(server.processedIds) <= server.MAX_PROCESSED_IDS

\* a poll is awaiting processDNSEntry for an entry; a later poll has found
\* that entry in its log, has skipped it and is awaiting processDNSEntry
\* for the next one; no id has left processedIds
ProcessedOnceWitness ==
  \E p, q \in DOMAIN server.polls :
    /\ p # q
    /\ server.polls[p].pc = "processing"
    /\ server.polls[q].pc = "processing"
    /\ server.polls[q].skippedDuplicates > 0
    /\ server.processedIds = <<entryId(Head(server.polls[p].entries)),
                               entryId(Head(server.polls[q].entries))>>
    /\ server.MAX_PROCESSED_IDS > MaxProcessedIds

====
